---------------------------- MODULE Spec2Model ----------------------------
(***************************************************************************)
(* A model of the tree-walking Lox interpreter: the environment chain,     *)
(* the resolver's depth side-table, user functions, classes, instances     *)
(* and the driver (Lox.run / runFile / runPrompt).                         *)
(*                                                                         *)
(* The interpreter's methods are translated one to one into operators that *)
(* take the interpreter state `s` and return a completion record           *)
(*     [s |-> state after, sig |-> how it completed, v |-> value, msg]     *)
(* where sig is "ok" (normal), "RuntimeError" (throw new RuntimeError),    *)
(* "Return" (throw new Return), "Error" (any other host exception) or      *)
(* "Fuel" (the evaluation exceeded MaxSteps).  One driver action runs one  *)
(* whole source through Lox.run, as the code does.                         *)
(***************************************************************************)
EXTENDS Integers, Sequences, FiniteSets, TLC

\* ------------------------------------------------------------------ bounds
\* Number of sources a REPL session reads.
MaxLines == 2
\* Number of statements and calls one run may execute.
MaxSteps == 60

\* ------------------------------------------------------------------ values
\* LoxValue = string | number | boolean | null | LoxCallable (| LoxInstance);
\* `undefined` is what a JavaScript Map.get yields for an absent key.
Nil == [t |-> "nil", v |-> 0]
Undefined == [t |-> "undefined", v |-> 0]
Bool(b) == [t |-> "bool", v |-> b]
Num(n) == [t |-> "num", v |-> n]
Str(x) == [t |-> "str", v |-> x]
FnRef(i) == [t |-> "fn", v |-> i]
ClassRef(i) == [t |-> "class", v |-> i]
InstRef(i) == [t |-> "inst", v |-> i]
Native == [t |-> "native", v |-> 0]

\* JavaScript's === on two Lox values.
StrictEq(a, b) == a.t = b.t /\ a.v = b.v

\* value instanceof LoxCallable / LoxClass / LoxInstance
IsCallable(v) == v.t \in {"fn", "class", "native"}
IsClass(v) == v.t = "class"
IsInstance(v) == v.t = "inst"

\* An empty Map<string, _>.
EmptyMap == [x \in {} |-> Nil]

\* ---------------------------------------------------------------- the AST
\* Expression nodes.  `id` is the node's identity (the key of the depth
\* side-table and of the evaluation trace); 0 for nodes nobody refers to.
Literal(v) == [kind |-> "Literal", id |-> 0, value |-> v]
Grouping(e) == [kind |-> "Grouping", id |-> 0, expression |-> e]
Unary(op, r) == [kind |-> "Unary", id |-> 0, operator |-> op, right |-> r]
Binary(l, op, r) == [kind |-> "Binary", id |-> 0, left |-> l, operator |-> op, right |-> r]
Variable(i, n) == [kind |-> "Variable", id |-> i, name |-> n]
Assignment(i, n, e) == [kind |-> "Assignment", id |-> i, name |-> n, value |-> e]
Call(c, a) == [kind |-> "Call", id |-> 0, callee |-> c, args |-> a]
Get(o, n) == [kind |-> "Get", id |-> 0, object |-> o, name |-> n]
Set(o, n, e) == [kind |-> "Set", id |-> 0, object |-> o, name |-> n, value |-> e]
This(i) == [kind |-> "This", id |-> i, keyword |-> "this"]
Super(i, m) == [kind |-> "Super", id |-> i, keyword |-> "super", method |-> m]
\* The same node with identity i.
At(i, e) == [e EXCEPT !.id = i]

\* Statement nodes.  hasInit / hasElse / hasValue / hasSuper say whether the
\* optional child is present (it is null or undefined in the code otherwise).
ExpressionStmt(e) == [kind |-> "Expression", expression |-> e]
PrintStmt(e) == [kind |-> "Print", expression |-> e]
VarStmt(n, e) == [kind |-> "Var", name |-> n, hasInit |-> TRUE, initializer |-> e]
VarNoInit(n) == [kind |-> "Var", name |-> n, hasInit |-> FALSE, initializer |-> Literal(Nil)]
BlockStmt(ss) == [kind |-> "Block", statements |-> ss]
IfStmt(c, b) == [kind |-> "If", condition |-> c, body |-> b, hasElse |-> FALSE, elseBody |-> BlockStmt(<<>>)]
IfElseStmt(c, b, e) == [kind |-> "If", condition |-> c, body |-> b, hasElse |-> TRUE, elseBody |-> e]
WhileStmt(c, b) == [kind |-> "While", condition |-> c, body |-> b]
FunctionStmt(n, ps, b) == [kind |-> "Function", name |-> n, params |-> ps, body |-> b]
ReturnStmt(e) == [kind |-> "Return", hasValue |-> TRUE, value |-> e]
ReturnNothing == [kind |-> "Return", hasValue |-> FALSE, value |-> Literal(Nil)]
ClassStmt(n, ms) == [kind |-> "Class", name |-> n, hasSuper |-> FALSE, superclass |-> Variable(0, n), methods |-> ms]
SubClassStmt(n, sup, ms) == [kind |-> "Class", name |-> n, hasSuper |-> TRUE, superclass |-> sup, methods |-> ms]

\* ------------------------------------------------- completions and the trace
\* Completion records of the interpreter's methods.
Ok(s, v) == [s |-> s, sig |-> "ok", v |-> v, msg |-> ""]
\* throw new RuntimeError(token, msg)
Throw(s, m) == [s |-> s, sig |-> "RuntimeError", v |-> Nil, msg |-> m]
\* throw new Return(value)
ThrowReturn(s, v) == [s |-> s, sig |-> "Return", v |-> v, msg |-> ""]
\* throw new Error(msg), or a TypeError of the host
Crash(s, m) == [s |-> s, sig |-> "Error", v |-> Nil, msg |-> m]
OutOfFuel(s) == [s |-> s, sig |-> "Fuel", v |-> Nil, msg |-> ""]
\* The completion's outcome as one string: "ok", or the message thrown.
Outcome(r) == IF r.sig = "ok" THEN "ok" ELSE IF r.sig = "RuntimeError" THEN r.msg ELSE r.sig
\* The same completion with another state.
WithState(r, s) == [r EXCEPT !.s = s]

\* History of one session, kept beside the program state: every entry of
\* evaluate, executeBlock and LoxFunction.call and what they returned.
Event(e, id, a, b, v, x) == [e |-> e, id |-> id, a |-> a, b |-> b, v |-> v, x |-> x]
Log(s, ev) == [s EXCEPT !.trace = Append(@, ev)]

\* ------------------------------------------------------------ Environment
\* The heap of Environment objects is s.envs; an Environment is its index,
\* 0 stands for `undefined` (no enclosing environment).
Globals == 1
NewEnvironment(enclosing) == [values |-> EmptyMap, enclosing |-> enclosing]
\* The state with a new Environment(enclosing) allocated; its index is Len(envs).
AllocEnv(s, enclosing) == [s EXCEPT !.envs = Append(@, NewEnvironment(enclosing))]

Environment_define(s, env, name, value) ==
  [s EXCEPT !.envs[env].values = (name :> value) @@ @]

RECURSIVE Environment_assign(_, _, _, _)
Environment_assign(s, env, name, value) ==
  IF name \in DOMAIN s.envs[env].values
  THEN Ok([s EXCEPT !.envs[env].values[name] = value], value)
  ELSE IF s.envs[env].enclosing # 0
       THEN Environment_assign(s, s.envs[env].enclosing, name, value)
       ELSE Throw(s, "Undefined varible " \o name \o ".")

RECURSIVE Environment_get(_, _, _)
Environment_get(s, env, name) ==
  IF name \in DOMAIN s.envs[env].values
  THEN Ok(s, s.envs[env].values[name])
  ELSE IF s.envs[env].enclosing # 0
       THEN Environment_get(s, s.envs[env].enclosing, name)
       ELSE Throw(s, "Undefined variable " \o name \o ".")

\* What getAt and assignAt met, kept beside the interpreter: the frame they
\* began at, the distance, the frame reached (0 if the chain is shorter) and
\* whether that frame held the name before the access.
Looked(s, access, env, distance, frame, name) ==
  [s EXCEPT !.lookups =
     Append(@, [access |-> access, env |-> env, distance |-> distance, frame |-> frame,
                name |-> name,
                found |-> frame # 0 /\ name \in DOMAIN s.envs[IF frame = 0 THEN 1 ELSE frame].values])]

RECURSIVE Environment_ancestor(_, _, _)
Environment_ancestor(s, env, distance) ==
  IF distance <= 0 \/ env = 0 THEN env
  ELSE Environment_ancestor(s, s.envs[env].enclosing, distance - 1)

\* ancestor(distance).values.get(name)!  -- undefined when the name is absent,
\* a TypeError when the chain is shorter than distance.
Environment_getAt(s, env, distance, name) ==
  LET a == Environment_ancestor(s, env, distance) IN
  IF a = 0 THEN Crash(Looked(s, "getAt", env, distance, a, name), "TypeError")
  ELSE IF name \in DOMAIN s.envs[a].values
       THEN Ok(Looked(s, "getAt", env, distance, a, name), s.envs[a].values[name])
       ELSE Ok(Looked(s, "getAt", env, distance, a, name), Undefined)

Environment_assignAt(s, env, distance, name, value) ==
  LET a == Environment_ancestor(s, env, distance) IN
  IF a = 0 THEN Crash(Looked(s, "assignAt", env, distance, a, name), "TypeError")
  ELSE Ok(Environment_define(Looked(s, "assignAt", env, distance, a, name), a, name, value),
          value)

\* --------------------------------------------------------- forward names
RECURSIVE Interpreter_dispatch(_, _, _)
RECURSIVE evaluateAll(_, _, _)
RECURSIVE executeStatements(_, _)
RECURSIVE executeBlock(_, _, _)
RECURSIVE interpretWhile(_, _)
RECURSIVE LoxClass_findMethod(_, _, _)

\* this.evaluate(expr) and this.execute(stmt): the method calls of the
\* interpreter on itself, which the visitors below make on their sub-trees.
this_evaluate(s, expr) == Interpreter_dispatch("evaluate", s, expr)
this_execute(s, statement) == Interpreter_dispatch("execute", s, statement)

\* ------------------------------------------------------------ LoxFunction
\* new LoxFunction(declaration, closure, isInitializer); its index is Len(funs).
NewLoxFunction(s, declaration, closure, isInitializer) ==
  [s EXCEPT !.funs = Append(@, [declaration |-> declaration, closure |-> closure,
                                 isInitializer |-> isInitializer])]

LoxFunction_arity(s, fn) == Len(s.funs[fn].declaration.params)

\* environment.define(params[i].lexeme, args[i]) for every parameter.
RECURSIVE DefineParams(_, _, _, _, _)
DefineParams(s, env, params, args, i) ==
  IF i > Len(params) THEN s
  ELSE DefineParams(
         Environment_define(s, env, params[i], IF i <= Len(args) THEN args[i] ELSE Undefined),
         env, params, args, i + 1)

LoxFunction_call_CallerEnv(s, fn, args) ==
  LET f == s.funs[fn]
      s1 == AllocEnv(s, s.environment)
      environment == Len(s1.envs)
      s2 == DefineParams(s1, environment, f.declaration.params, args, 1)
      s3 == Log(s2, Event("call", fn, environment, s.environment, Nil, f.declaration.name))
      Returned(r) ==
        IF r.sig = "Return" THEN Ok(r.s, r.v)
        ELSE IF r.sig # "ok" THEN r
        ELSE Ok(r.s, Nil)
      Exit(res) ==
        WithState(res, Log(res.s, Event("callExit", fn, s.environment, res.s.environment,
                                        res.v, res.sig)))
  IN Exit(Returned(executeBlock(s3, f.declaration.body, environment)))

LoxFunction_call_ReturnEscapes(s, fn, args) ==
  LET f == s.funs[fn]
      s1 == AllocEnv(s, f.closure)
      environment == Len(s1.envs)
      s2 == DefineParams(s1, environment, f.declaration.params, args, 1)
      s3 == Log(s2, Event("call", fn, environment, s.environment, Nil, f.declaration.name))
      Returned(r) ==
        IF r.sig # "ok" THEN r
        ELSE Ok(r.s, Nil)
      Exit(res) ==
        WithState(res, Log(res.s, Event("callExit", fn, s.environment, res.s.environment,
                                        res.v, res.sig)))
  IN Exit(Returned(executeBlock(s3, f.declaration.body, environment)))

LoxFunction_call(s, fn, args) ==
  LET f == s.funs[fn]
      s1 == AllocEnv(s, f.closure)
      environment == Len(s1.envs)
      s2 == DefineParams(s1, environment, f.declaration.params, args, 1)
      s3 == Log(s2, Event("call", fn, environment, s.environment, Nil, f.declaration.name))
      Returned(r) ==
        IF r.sig = "Return"
        THEN IF f.isInitializer
             THEN Environment_getAt(r.s, f.closure, 0, "this")
             ELSE Ok(r.s, r.v)
        ELSE IF r.sig # "ok" THEN r
        ELSE IF f.isInitializer
             THEN Environment_getAt(r.s, f.closure, 0, "this")
             ELSE Ok(r.s, Nil)
      Exit(res) ==
        WithState(res, Log(res.s, Event("callExit", fn, s.environment, res.s.environment,
                                        res.v, res.sig)))
  IN Exit(Returned(executeBlock(s3, f.declaration.body, environment)))

\* Yields the state with the bound function allocated; the function is the
\* last one of funs.
LoxFunction_bind(s, fn, instance) ==
  LET f == s.funs[fn]
      s1 == AllocEnv(s, f.closure)
      environment == Len(s1.envs)
      s2 == Environment_define(s1, environment, "this", instance)
      s3 == NewLoxFunction(s2, f.declaration, environment, f.isInitializer)
  IN Ok(s3, FnRef(Len(s3.funs)))

\* --------------------------------------------------------------- LoxClass
NewLoxClass(s, name, superclass, methods) ==
  [s EXCEPT !.classes = Append(@, [name |-> name, superclass |-> superclass,
                                    methods |-> methods])]

\* The method's function, 0 for `undefined`.
LoxClass_findMethod(s, klass, name) ==
  IF name \in DOMAIN s.classes[klass].methods
  THEN s.classes[klass].methods[name]
  ELSE IF s.classes[klass].superclass # 0
       THEN LoxClass_findMethod(s, s.classes[klass].superclass, name)
       ELSE 0

LoxClass_arity(s, klass) ==
  LET initializer == LoxClass_findMethod(s, klass, "init") IN
  IF initializer = 0 THEN 0 ELSE LoxFunction_arity(s, initializer)

\* new LoxInstance(klass); its index is Len(insts).
NewLoxInstance(s, klass) ==
  [s EXCEPT !.insts = Append(@, [klass |-> klass, fields |-> EmptyMap])]

LoxClass_call(s, klass, args) ==
  LET s1 == NewLoxInstance(s, klass)
      instance == InstRef(Len(s1.insts))
      initializer == LoxClass_findMethod(s1, klass, "init")
      Constructed(c) == IF c.sig # "ok" THEN c ELSE Ok(c.s, instance)
      Bound(b) == Constructed(LoxFunction_call(b.s, b.v.v, args))
  IN IF initializer # 0
     THEN Bound(LoxFunction_bind(s1, initializer, instance))
     ELSE Ok(s1, instance)

\* ------------------------------------------------------------ LoxInstance
LoxInstance_get(s, inst, name) ==
  LET fields == s.insts[inst].fields
      value == IF name \in DOMAIN fields THEN fields[name] ELSE Undefined
  IN IF value.t # "undefined"
     THEN Ok(s, value)
     ELSE Throw(s, "Undefined property " \o name \o ".")

LoxInstance_set(s, inst, name, value) ==
  [s EXCEPT !.insts[inst].fields = (name :> value) @@ @]

\* ------------------------------------------------- interpreter's functions
isTruthy(value) == value.t # "nil" /\ ~(value.t = "bool" /\ value.v = FALSE)

stringify(s, value) ==
  IF value.t = "nil" THEN "nil"
  ELSE CASE value.t = "num" -> ToString(value.v)
         [] value.t = "bool" -> IF value.v THEN "true" ELSE "false"
         [] value.t = "str" -> value.v
         [] value.t = "undefined" -> "undefined"
         [] value.t = "native" -> "<native fn>"
         [] value.t = "fn" -> "<fn " \o s.funs[value.v].declaration.name \o ">"
         [] value.t = "class" -> s.classes[value.v].name
         [] value.t = "inst" -> s.classes[s.insts[value.v].klass].name \o " instance"

checkNumberOperand(s, operand) ==
  IF operand.t = "num" THEN Ok(s, operand)
  ELSE Throw(s, "Operand must be a number.")

checkNumberOperands(s, left, right) ==
  IF left.t = "num" /\ right.t = "num" THEN Ok(s, Nil)
  ELSE Throw(s, "Operands must be numbers.")

isLogicalBinary(binary) == binary.operator = "AND" \/ binary.operator = "OR"

\* ------------------------------------------------------------ Interpreter
\* The interpreter object after its constructor ran: globals holds clock.
NewInterpreter ==
  [envs |-> <<[values |-> ("clock" :> Native), enclosing |-> 0]>>,
   funs |-> <<>>, classes |-> <<>>, insts |-> <<>>,
   environment |-> Globals, locals |-> EmptyMap,
   out |-> <<>>, trace |-> <<>>, lookups |-> <<>>, steps |-> 0, now |-> 0]

\* Interpreter.resolve(expr, depth)
Interpreter_resolve(locals, expr, depth) == (expr.id :> depth) @@ locals

lookUpVariable(s, name, expr) ==
  IF expr.id \in DOMAIN s.locals
  THEN Environment_getAt(s, s.environment, s.locals[expr.id], name)
  ELSE Environment_get(s, Globals, name)

interpretVariable(s, variable) == lookUpVariable(s, variable.name, variable)

interpretThis(s, thisExpr) == lookUpVariable(s, thisExpr.keyword, thisExpr)

interpretSuper_RuntimeClass(s, superExpr) ==
  IF superExpr.id \notin DOMAIN s.locals
  THEN Crash(s, "Expect invariant that super is found.")
  ELSE
    LET distance == s.locals[superExpr.id]
        object == Environment_getAt(s, s.environment, distance - 1, "this")
        superclass == IF IsInstance(object.v)
                      THEN Ok(object.s,
                              ClassRef(s.classes[s.insts[object.v.v].klass].superclass))
                      ELSE Environment_getAt(object.s, s.environment, distance, "super")
    IN IF superclass.sig # "ok" THEN superclass
       ELSE IF ~IsClass(superclass.v)
       THEN Crash(s, "Expect invariant that superclass is a class.")
       ELSE IF object.sig # "ok" THEN object
       ELSE IF ~IsInstance(object.v)
       THEN Crash(s, "Expect invariant that object is an instance.")
       ELSE LET method == LoxClass_findMethod(s, superclass.v.v, superExpr.method)
                s1 == Log(superclass.s, Event("super", superExpr.id, object.v.v, superclass.v.v, Nil,
                                   superExpr.method))
                r == IF method = 0
                     THEN Throw(s1, "Undefined property '" \o superExpr.method \o "'.")
                     ELSE LoxFunction_bind(s1, method, object.v)
            IN WithState(r, Log(r.s, Event("superResult", superExpr.id, 0, 0, r.v, Outcome(r))))

interpretSuper(s, superExpr) ==
  IF superExpr.id \notin DOMAIN s.locals
  THEN Crash(s, "Expect invariant that super is found.")
  ELSE
    LET distance == s.locals[superExpr.id]
        superclass == Environment_getAt(s, s.environment, distance, "super")
        object == Environment_getAt(superclass.s, s.environment, distance - 1, "this")
    IN IF superclass.sig # "ok" THEN superclass
       ELSE IF ~IsClass(superclass.v)
       THEN Crash(s, "Expect invariant that superclass is a class.")
       ELSE IF object.sig # "ok" THEN object
       ELSE IF ~IsInstance(object.v)
       THEN Crash(s, "Expect invariant that object is an instance.")
       ELSE LET method == LoxClass_findMethod(s, superclass.v.v, superExpr.method)
                s1 == Log(object.s, Event("super", superExpr.id, object.v.v, superclass.v.v, Nil,
                                   superExpr.method))
                r == IF method = 0
                     THEN Throw(s1, "Undefined property '" \o superExpr.method \o "'.")
                     ELSE LoxFunction_bind(s1, method, object.v)
            IN WithState(r, Log(r.s, Event("superResult", superExpr.id, 0, 0, r.v, Outcome(r))))

interpretAssignment(s, expr) ==
  LET value == this_evaluate(s, expr.value) IN
  IF value.sig # "ok" THEN value
  ELSE LET a == IF expr.id \in DOMAIN value.s.locals
                THEN Environment_assignAt(value.s, value.s.environment,
                                          value.s.locals[expr.id], expr.name, value.v)
                ELSE Environment_assign(value.s, Globals, expr.name, value.v)
       IN IF a.sig # "ok" THEN a ELSE Ok(a.s, value.v)

interpretUnary(s, unary) ==
  LET right == this_evaluate(s, unary.right) IN
  IF right.sig # "ok" THEN right
  ELSE CASE unary.operator = "BANG" -> Ok(right.s, Bool(~isTruthy(right.v)))
         [] unary.operator = "MINUS" ->
              LET c == checkNumberOperand(right.s, right.v) IN
              IF c.sig # "ok" THEN c ELSE Ok(right.s, Num(0 - right.v.v))

interpretLogicalBinary_Eager(s, expr) ==
  LET left == this_evaluate(s, expr.left)
      s1 == Log(left.s, Event("logical", expr.id, expr.left.id, expr.right.id, left.v, expr.operator))
      right == this_evaluate(s1, expr.right)
  IN IF left.sig # "ok" THEN left
     ELSE IF right.sig # "ok" THEN right
     ELSE IF ~isTruthy(left.v) THEN Ok(right.s, left.v)
     ELSE IF expr.operator = "OR" THEN Ok(right.s, left.v)
     ELSE right

\* The switch has no break after `case OR`: an `or` whose left operand is
\* falsy falls through into `case AND` and returns the left operand.
interpretLogicalBinary(s, expr) ==
  LET left == this_evaluate(s, expr.left)
      s1 == Log(left.s, Event("logical", expr.id, expr.left.id, expr.right.id, left.v, expr.operator))
  IN IF left.sig # "ok" THEN left
     ELSE IF expr.operator = "OR" /\ isTruthy(left.v) THEN Ok(s1, left.v)
     ELSE IF expr.operator \in {"OR", "AND"} /\ ~isTruthy(left.v) THEN Ok(s1, left.v)
     ELSE this_evaluate(s1, expr.right)

\* The arithmetic of the model is that of the integers; a division whose
\* result is not an integer is outside the model.
interpretBinary(s, binary) ==
  IF isLogicalBinary(binary) THEN interpretLogicalBinary(s, binary)
  ELSE
    LET left == this_evaluate(s, binary.left)
        right == this_evaluate(left.s, binary.right)
        op == binary.operator
        c == checkNumberOperands(right.s, left.v, right.v)
        l == left.v.v
        r == right.v.v
    IN IF left.sig # "ok" THEN left
       ELSE IF right.sig # "ok" THEN right
       ELSE CASE op = "PLUS" ->
                   IF left.v.t = "num" /\ right.v.t = "num" THEN Ok(right.s, Num(l + r))
                   ELSE IF left.v.t = "str" /\ right.v.t = "str" THEN Ok(right.s, Str(l \o r))
                   ELSE Throw(right.s, "Operands must be two numbers or two strings.")
              [] op = "MINUS" -> IF c.sig # "ok" THEN c ELSE Ok(right.s, Num(l - r))
              [] op = "STAR" -> IF c.sig # "ok" THEN c ELSE Ok(right.s, Num(l * r))
              [] op = "SLASH" -> IF c.sig # "ok" THEN c
                                 ELSE IF r # 0 /\ l % r = 0 THEN Ok(right.s, Num(l \div r))
                                 ELSE OutOfFuel(right.s)
              [] op = "EQUAL_EQUAL" -> Ok(right.s, Bool(StrictEq(left.v, right.v)))
              [] op = "BANG_EQUAL" -> Ok(right.s, Bool(~StrictEq(left.v, right.v)))
              [] op = "GREATER" -> IF c.sig # "ok" THEN c ELSE Ok(right.s, Bool(l > r))
              [] op = "GREATER_EQUAL" -> IF c.sig # "ok" THEN c ELSE Ok(right.s, Bool(l >= r))
              [] op = "LESS" -> IF c.sig # "ok" THEN c ELSE Ok(right.s, Bool(l < r))
              [] op = "LESS_EQUAL" -> IF c.sig # "ok" THEN c ELSE Ok(right.s, Bool(l <= r))

\* call.args.map((arg) => this.evaluate(arg)); the values are in r.v, a sequence.
evaluateAll(s, args, i) ==
  IF i > Len(args) THEN [s |-> s, sig |-> "ok", v |-> <<>>, msg |-> ""]
  ELSE LET a == this_evaluate(s, args[i]) IN
       IF a.sig # "ok" THEN a
       ELSE LET rest == evaluateAll(a.s, args, i + 1) IN
            IF rest.sig # "ok" THEN rest
            ELSE [rest EXCEPT !.v = <<a.v>> \o @]

\* callee.arity
Callable_arity(s, callee) ==
  CASE callee.t = "fn" -> LoxFunction_arity(s, callee.v)
    [] callee.t = "class" -> LoxClass_arity(s, callee.v)
    [] callee.t = "native" -> 0

\* callee.call(interpreter, args)
Callable_call(s, callee, args) ==
  CASE callee.t = "fn" -> LoxFunction_call(s, callee.v, args)
    [] callee.t = "class" -> LoxClass_call(s, callee.v, args)
    [] callee.t = "native" -> Ok(s, Num(s.now))

interpretCall(s, call) ==
  LET callee == this_evaluate(s, call.callee)
      args == evaluateAll(callee.s, call.args, 1)
  IN IF callee.sig # "ok" THEN callee
     ELSE IF args.sig # "ok" THEN args
     ELSE IF ~IsCallable(callee.v)
     THEN Throw(args.s, "Can only call functions and classes.")
     ELSE IF Len(args.v) # Callable_arity(args.s, callee.v)
     THEN Throw(args.s, "Expected " \o ToString(Callable_arity(args.s, callee.v))
                        \o " arguments but got " \o ToString(Len(args.v)) \o ".")
     ELSE Callable_call(args.s, callee.v, args.v)

\* What a property access found before it looked: whether the instance has
\* the field, and the method its class chain defines (0 for none).
GetEvent(s, inst, name) ==
  LET fields == s.insts[inst].fields
      hasField == name \in DOMAIN fields
  IN Event("get", inst, IF hasField THEN 1 ELSE 0,
           LoxClass_findMethod(s, s.insts[inst].klass, name),
           IF hasField THEN fields[name] ELSE Nil, name)

interpretGet(s, get) ==
  LET object == this_evaluate(s, get.object) IN
  IF object.sig # "ok" THEN object
  ELSE IF IsInstance(object.v)
  THEN LET r == LoxInstance_get(Log(object.s, GetEvent(object.s, object.v.v, get.name)),
                                object.v.v, get.name)
       IN WithState(r, Log(r.s, Event("getResult", object.v.v, 0, 0, r.v, Outcome(r))))
  ELSE Throw(object.s, "Only instances have properties.")

interpretSet(s, set) ==
  LET object == this_evaluate(s, set.object) IN
  IF object.sig # "ok" THEN object
  ELSE IF ~IsInstance(object.v)
  THEN Throw(object.s, "Only instances have fields.")
  ELSE LET value == this_evaluate(object.s, set.value) IN
       IF value.sig # "ok" THEN value
       ELSE Ok(LoxInstance_set(value.s, object.v.v, set.name, value.v), value.v)

evaluate(s, expr) ==
  LET s0 == IF expr.id # 0 THEN Log(s, Event("eval", expr.id, 0, 0, Nil, expr.kind)) ELSE s
      Evaluated(r) ==
        IF expr.id # 0
        THEN WithState(r, Log(r.s, Event("value", expr.id, r.s.environment, 0, r.v, Outcome(r))))
        ELSE r
  IN Evaluated(
        CASE expr.kind = "Literal" -> Ok(s0, expr.value)
             [] expr.kind = "Unary" -> interpretUnary(s0, expr)
             [] expr.kind = "Binary" -> interpretBinary(s0, expr)
             [] expr.kind = "Grouping" -> this_evaluate(s0, expr.expression)
             [] expr.kind = "Variable" -> interpretVariable(s0, expr)
             [] expr.kind = "This" -> interpretThis(s0, expr)
             [] expr.kind = "Super" -> interpretSuper(s0, expr)
             [] expr.kind = "Assignment" -> interpretAssignment(s0, expr)
             [] expr.kind = "Call" -> interpretCall(s0, expr)
             [] expr.kind = "Get" -> interpretGet(s0, expr)
             [] expr.kind = "Set" -> interpretSet(s0, expr))

\* statements.forEach((stmt) => this.execute(stmt)): stops at the first throw.
\* The loop is unfolded from its last iteration: the statements before the
\* last one run first, and the last one runs only if none of them threw.
executeStatements(s, statements) ==
  IF statements = <<>> THEN Ok(s, Nil)
  ELSE LET r == executeStatements(s, SubSeq(statements, 1, Len(statements) - 1)) IN
       IF r.sig # "ok" THEN r ELSE this_execute(r.s, statements[Len(statements)])

executeBlock_NoFinally(s, statements, environment) ==
  LET previousEnvironment == s.environment
      r == executeStatements([s EXCEPT !.environment = environment], statements)
      after == IF r.sig = "ok" THEN [r.s EXCEPT !.environment = previousEnvironment] ELSE r.s
  IN WithState(r, Log(after, Event("blockExit", 0, previousEnvironment, after.environment, Nil, r.sig)))

\* executeBlock that restores the environment after the block ended or
\* returned, and not when a runtime error leaves it.
executeBlock_RestoreUnlessError(s, statements, environment) ==
  LET previousEnvironment == s.environment
      r == executeStatements([s EXCEPT !.environment = environment], statements)
      after == IF r.sig \in {"ok", "Return"}
               THEN [r.s EXCEPT !.environment = previousEnvironment] ELSE r.s
  IN WithState(r, Log(after, Event("blockExit", 0, previousEnvironment, after.environment, Nil, r.sig)))

\* try { ... } finally { this.environment = previousEnvironment; }
executeBlock(s, statements, environment) ==
  LET previousEnvironment == s.environment
      r == executeStatements([s EXCEPT !.environment = environment], statements)
      after == [r.s EXCEPT !.environment = previousEnvironment]
  IN WithState(r, Log(after, Event("blockExit", 0, previousEnvironment, after.environment, Nil, r.sig)))

interpretExpressionStatement(s, stmt) ==
  LET r == this_evaluate(s, stmt.expression) IN
  IF r.sig # "ok" THEN r ELSE Ok(r.s, Nil)

interpretPrintStatement(s, stmt) ==
  LET value == this_evaluate(s, stmt.expression) IN
  IF value.sig # "ok" THEN value
  ELSE Ok([value.s EXCEPT !.out = Append(@, stringify(value.s, value.v))], Nil)

interpretVariableDeclaration(s, stmt) ==
  LET value == IF stmt.hasInit THEN this_evaluate(s, stmt.initializer) ELSE Ok(s, Nil) IN
  IF value.sig # "ok" THEN value
  ELSE Ok(Environment_define(value.s, value.s.environment, stmt.name, value.v), Nil)

interpretFunctionDeclaration(s, stmt) ==
  LET s1 == NewLoxFunction(s, stmt, s.environment, FALSE)
      func == Len(s1.funs)
      s2 == Log(s1, Event("declare", func, s.environment, 0, Nil, stmt.name))
  IN Ok(Environment_define(s2, s2.environment, stmt.name, FnRef(func)), Nil)

\* The methods map of a class declaration: one LoxFunction per method, closed
\* over the current environment; r.v is the map from name to function.
RECURSIVE DeclareMethods(_, _, _, _)
DeclareMethods(s, methodDecls, i, methods) ==
  IF i > Len(methodDecls) THEN [s |-> s, v |-> methods]
  ELSE LET method == methodDecls[i]
           s1 == NewLoxFunction(s, method, s.environment, method.name = "init")
       IN DeclareMethods(s1, methodDecls, i + 1, (method.name :> Len(s1.funs)) @@ methods)

\* The declaration with the class name defined before the superclass is
\* looked at.
interpretClassDeclaration_DefineFirst(s, stmt) ==
  LET s0 == Environment_define(s, s.environment, stmt.name, Nil)
      superclass == IF stmt.hasSuper THEN this_evaluate(s0, stmt.superclass) ELSE Ok(s0, Undefined)
  IN
  IF superclass.sig # "ok" THEN superclass
  ELSE IF stmt.hasSuper /\ ~IsClass(superclass.v)
  THEN Throw(superclass.s, "Superclass must be a class.")
  ELSE
    LET s2 == IF stmt.hasSuper
              THEN LET a == AllocEnv(superclass.s, superclass.s.environment) IN
                   Environment_define([a EXCEPT !.environment = Len(a.envs)],
                                      Len(a.envs), "super", superclass.v)
              ELSE superclass.s
        m == DeclareMethods(s2, stmt.methods, 1, EmptyMap)
        s3 == NewLoxClass(m.s, stmt.name,
                          IF stmt.hasSuper THEN superclass.v.v ELSE 0, m.v)
        klass == ClassRef(Len(s3.classes))
        s4 == IF stmt.hasSuper
              THEN [s3 EXCEPT !.environment = s3.envs[s3.environment].enclosing]
              ELSE s3
        a == Environment_assign(s4, s4.environment, stmt.name, klass)
    IN IF a.sig # "ok" THEN a ELSE Ok(a.s, Nil)

interpretClassDeclaration(s, stmt) ==
  LET superclass == IF stmt.hasSuper THEN this_evaluate(s, stmt.superclass) ELSE Ok(s, Undefined) IN
  IF superclass.sig # "ok" THEN superclass
  ELSE IF stmt.hasSuper /\ ~IsClass(superclass.v)
  THEN Throw(superclass.s, "Superclass must be a class.")
  ELSE
    LET s1 == Environment_define(superclass.s, superclass.s.environment, stmt.name, Nil)
        s2 == IF stmt.hasSuper
              THEN LET a == AllocEnv(s1, s1.environment) IN
                   Environment_define([a EXCEPT !.environment = Len(a.envs)],
                                      Len(a.envs), "super", superclass.v)
              ELSE s1
        m == DeclareMethods(s2, stmt.methods, 1, EmptyMap)
        s3 == NewLoxClass(m.s, stmt.name,
                          IF stmt.hasSuper THEN superclass.v.v ELSE 0, m.v)
        klass == ClassRef(Len(s3.classes))
        s4 == IF stmt.hasSuper
              THEN [s3 EXCEPT !.environment = s3.envs[s3.environment].enclosing]
              ELSE s3
        a == Environment_assign(s4, s4.environment, stmt.name, klass)
    IN IF a.sig # "ok" THEN a ELSE Ok(a.s, Nil)

interpretIf(s, stmt) ==
  LET c == this_evaluate(s, stmt.condition) IN
  IF c.sig # "ok" THEN c
  ELSE IF isTruthy(c.v) THEN this_execute(c.s, stmt.body)
  ELSE IF stmt.hasElse THEN this_execute(c.s, stmt.elseBody)
  ELSE Ok(c.s, Nil)

interpretWhile(s, stmt) ==
  LET c == this_evaluate(s, stmt.condition) IN
  IF c.sig # "ok" THEN c
  ELSE IF isTruthy(c.v)
  THEN LET b == this_execute(c.s, stmt.body) IN
       IF b.sig # "ok" THEN b ELSE interpretWhile(b.s, stmt)
  ELSE Ok(c.s, Nil)

interpretReturn(s, stmt) ==
  LET returnValue == IF stmt.hasValue THEN this_evaluate(s, stmt.value) ELSE Ok(s, Nil) IN
  IF returnValue.sig # "ok" THEN returnValue
  ELSE ThrowReturn(Log(returnValue.s, Event("throwReturn", 0, IF stmt.hasValue THEN 1 ELSE 0, 0,
                                               returnValue.v, "")),
                   returnValue.v)

execute(s, statement) ==
  IF s.steps >= MaxSteps THEN OutOfFuel(s)
  ELSE
    LET s0 == Log([s EXCEPT !.steps = @ + 1],
                  Event("exec", 0, s.environment, 0, Nil, statement.kind)) IN
    CASE statement.kind = "Expression" -> interpretExpressionStatement(s0, statement)
      [] statement.kind = "Print" -> interpretPrintStatement(s0, statement)
      [] statement.kind = "Var" -> interpretVariableDeclaration(s0, statement)
      [] statement.kind = "Block" ->
           LET a == AllocEnv(s0, s0.environment) IN
           executeBlock(a, statement.statements, Len(a.envs))
      [] statement.kind = "If" -> interpretIf(s0, statement)
      [] statement.kind = "While" -> interpretWhile(s0, statement)
      [] statement.kind = "Function" -> interpretFunctionDeclaration(s0, statement)
      [] statement.kind = "Class" -> interpretClassDeclaration(s0, statement)
      [] statement.kind = "Return" -> interpretReturn(s0, statement)

\* The method a call of the interpreter on itself runs.
Interpreter_dispatch(method, s, node) ==
  CASE method = "evaluate" -> evaluate(s, node)
    [] method = "execute" -> execute(s, node)

\* A statement loop that goes on with the next statement after a
\* RuntimeError and throws it when the loop is over.
RECURSIVE interpret_KeepGoing(_, _)
interpret_KeepGoing(s, statements) ==
  IF statements = <<>> THEN Ok(s, Nil)
  ELSE LET r == interpret_KeepGoing(s, SubSeq(statements, 1, Len(statements) - 1))
           Kept(q) == IF q.sig = "ok" /\ r.sig = "RuntimeError" THEN WithState(r, q.s) ELSE q
       IN IF r.sig \notin {"ok", "RuntimeError"} THEN r
          ELSE Kept(this_execute(r.s, statements[Len(statements)]))

\* Interpreter.interpret without its catch: the completion of the statement
\* loop.  Lox_run below models the catch and Lox.runtimeError.
interpret(s, statements) == executeStatements(s, statements)

\* --------------------------------------------------------------- Resolver
\* The resolver state rs: the scope stack (innermost last), currentFunction,
\* currentClass, the interpreter's depth table it writes to, the messages it
\* handed to Lox.error, and the history of its visits.
RECURSIVE resolve(_, _)
RECURSIVE resolveStatements(_, _)
RECURSIVE resolveAll(_, _)

NewResolver(locals) ==
  [scopes |-> <<>>, currentFunction |-> "NONE", currentClass |-> "NONE",
   locals |-> locals, errors |-> <<>>, history |-> <<>>]

\* The resolver's history: what it visited and what it knew at that moment.
Note(rs, ev) == [rs EXCEPT !.history = Append(@, ev)]

\* No resolver ran.
NotResolved == [ran |-> FALSE, scopes |-> 0, currentFunction |-> "NONE", currentClass |-> "NONE"]

\* Lox.error(token, message)
Lox_error(rs, message) ==
  Note([rs EXCEPT !.errors = Append(@, message)], Event("error", 0, 0, 0, Nil, message))

peekScope(rs) == rs.scopes[Len(rs.scopes)]

beginScope(rs) ==
  Note([rs EXCEPT !.scopes = Append(@, EmptyMap)],
       Event("scope", 0, Len(rs.scopes) + 1, 0, Nil, ""))

endScope(rs) ==
  Note([rs EXCEPT !.scopes = SubSeq(@, 1, Len(@) - 1)],
       Event("scopeExit", 0, Len(rs.scopes), 0, Nil, ""))

\* this.peekScope().set(name, value)
ScopeSet(rs, name, value) ==
  [rs EXCEPT !.scopes[Len(rs.scopes)] = (name :> value) @@ @]

\* declare that looks for the name in every enclosing scope.
declare_AnyScope(rs, name) ==
  IF Len(rs.scopes) = 0 THEN Note(rs, Event("declare", 0, 0, 0, Nil, name))
  ELSE LET Check(r0) ==
             ScopeSet(IF \E k \in DOMAIN r0.scopes : name \in DOMAIN r0.scopes[k]
                      THEN Lox_error(r0, "Already a variable with this name in this scope.")
                      ELSE r0,
                      name, FALSE)
       IN Check(Note(rs, Event("declare", 0, Len(rs.scopes),
                               IF name \in DOMAIN peekScope(rs) THEN 1 ELSE 0, Nil, name)))

declare(rs, name) ==
  IF Len(rs.scopes) = 0 THEN Note(rs, Event("declare", 0, 0, 0, Nil, name))
  ELSE LET Check(r0) ==
             ScopeSet(IF name \in DOMAIN peekScope(r0)
                      THEN Lox_error(r0, "Already a variable with this name in this scope.")
                      ELSE r0,
                      name, FALSE)
       IN Check(Note(rs, Event("declare", 0, Len(rs.scopes),
                               IF name \in DOMAIN peekScope(rs) THEN 1 ELSE 0, Nil, name)))

define(rs, name) ==
  IF Len(rs.scopes) = 0 THEN Note(rs, Event("define", 0, 0, 0, Nil, name))
  ELSE Note(ScopeSet(rs, name, TRUE), Event("define", 0, Len(rs.scopes), 0, Nil, name))

RECURSIVE resolveLocalFrom(_, _, _, _)
resolveLocalFrom(rs, expr, name, i) ==
  IF i < 1 THEN rs
  ELSE IF name \in DOMAIN rs.scopes[i]
       THEN [rs EXCEPT !.locals = Interpreter_resolve(@, expr, Len(rs.scopes) - i)]
       ELSE resolveLocalFrom(rs, expr, name, i - 1)

resolveLocal(rs, expr, name) == resolveLocalFrom(rs, expr, name, Len(rs.scopes))

RECURSIVE DeclareParams(_, _, _)
DeclareParams(rs, params, i) ==
  IF i > Len(params) THEN rs
  ELSE DeclareParams(define(declare(rs, params[i]), params[i]), params, i + 1)

\* resolveFunction that leaves currentFunction as the body had it.
resolveFunction_NoRestore(rs, func, type) ==
  LET enclosingFunction == rs.currentFunction
      Exit(r4, enter) ==
        Note(r4, Event("functionExit", enter, 0, 0, Nil, r4.currentFunction))
      Enter(r0) ==
        Exit(endScope(resolveStatements(
               DeclareParams(beginScope([r0 EXCEPT !.currentFunction = type]),
                             func.params, 1),
               func.body)),
             Len(r0.history))
  IN Enter(Note(rs, Event("function", 0, 0, 0, Str(enclosingFunction), type)))

resolveFunction(rs, func, type) ==
  LET enclosingFunction == rs.currentFunction
      Exit(r5, enter) ==
        Note(r5, Event("functionExit", enter, 0, 0, Nil, r5.currentFunction))
      Restore(r4) == [r4 EXCEPT !.currentFunction = enclosingFunction]
      Enter(r0) ==
        Exit(Restore(endScope(resolveStatements(
               DeclareParams(beginScope([r0 EXCEPT !.currentFunction = type]),
                             func.params, 1),
               func.body))),
             Len(r0.history))
  IN Enter(Note(rs, Event("function", 0, 0, 0, Str(enclosingFunction), type)))

\* resolveBlockStatement that opens no scope for the block.
resolveBlockStatement_NoScope(rs, statement) ==
  resolveStatements(rs, statement.statements)

\* resolveBlockStatement that leaves the scope of the block open.
resolveBlockStatement_NoEndScope(rs, statement) ==
  resolveStatements(beginScope(rs), statement.statements)

resolveBlockStatement(rs, statement) ==
  endScope(resolveStatements(beginScope(rs), statement.statements))

\* resolveVarStatement that defines the name before it resolves the
\* initializer.
resolveVarStatement_DefineFirst(rs, statement) ==
  LET Initializer(r1) ==
        IF statement.hasInit THEN resolve(r1, statement.initializer) ELSE r1
  IN Initializer(define(declare(rs, statement.name), statement.name))

resolveVarStatement(rs, statement) ==
  LET Initializer(r1) ==
        IF statement.hasInit THEN resolve(r1, statement.initializer) ELSE r1
  IN define(Initializer(declare(rs, statement.name)), statement.name)

resolveFunctionStatement(rs, statement) ==
  resolveFunction(define(declare(rs, statement.name), statement.name), statement, "FUNCTION")

RECURSIVE ResolveMethods(_, _, _)
ResolveMethods(rs, methods, i) ==
  IF i > Len(methods) THEN rs
  ELSE LET declaration == IF methods[i].name = "init" THEN "INITIALIZER" ELSE "METHOD" IN
       ResolveMethods(resolveFunction(rs, methods[i], declaration), methods, i + 1)

\* resolveClassStatement that leaves currentClass as the class had it.
resolveClassStatement_NoRestore(rs, statement) ==
  LET enclosingClass == rs.currentClass
      Inherit(r1) ==
        IF statement.hasSuper
        THEN resolve(IF statement.name = statement.superclass.name
                     THEN Lox_error([r1 EXCEPT !.currentClass = "SUBCLASS"],
                                    "A class can't inherit from itself.")
                     ELSE [r1 EXCEPT !.currentClass = "SUBCLASS"],
                     statement.superclass)
        ELSE r1
      SuperScope(r2) ==
        IF statement.hasSuper THEN ScopeSet(beginScope(r2), "super", TRUE) ELSE r2
      ThisScope(r3) ==
        Note(ScopeSet(beginScope(r3), "this", TRUE),
             Event("class", 0, IF statement.hasSuper THEN 1 ELSE 0, 0,
                   Str(enclosingClass), r3.currentClass))
      EndSuper(r6) == IF statement.hasSuper THEN endScope(r6) ELSE r6
      Restore(r7) == r7
      Exit(r8, enter) == Note(r8, Event("classExit", enter, 0, 0, Nil, r8.currentClass))
      Methods(r4) ==
        Exit(Restore(EndSuper(endScope(ResolveMethods(r4, statement.methods, 1)))),
             Len(r4.history))
  IN Methods(ThisScope(SuperScope(Inherit(
       define(declare([rs EXCEPT !.currentClass = "CLASS"], statement.name),
              statement.name)))))

resolveClassStatement(rs, statement) ==
  LET enclosingClass == rs.currentClass
      Inherit(r1) ==
        IF statement.hasSuper
        THEN resolve(IF statement.name = statement.superclass.name
                     THEN Lox_error([r1 EXCEPT !.currentClass = "SUBCLASS"],
                                    "A class can't inherit from itself.")
                     ELSE [r1 EXCEPT !.currentClass = "SUBCLASS"],
                     statement.superclass)
        ELSE r1
      SuperScope(r2) ==
        IF statement.hasSuper THEN ScopeSet(beginScope(r2), "super", TRUE) ELSE r2
      ThisScope(r3) ==
        Note(ScopeSet(beginScope(r3), "this", TRUE),
             Event("class", 0, IF statement.hasSuper THEN 1 ELSE 0, 0,
                   Str(enclosingClass), r3.currentClass))
      EndSuper(r6) == IF statement.hasSuper THEN endScope(r6) ELSE r6
      Restore(r7) == [r7 EXCEPT !.currentClass = enclosingClass]
      Exit(r8, enter) == Note(r8, Event("classExit", enter, 0, 0, Nil, r8.currentClass))
      Methods(r4) ==
        Exit(Restore(EndSuper(endScope(ResolveMethods(r4, statement.methods, 1)))),
             Len(r4.history))
  IN Methods(ThisScope(SuperScope(Inherit(
       define(declare([rs EXCEPT !.currentClass = "CLASS"], statement.name),
              statement.name)))))

\* What the innermost scope says of a name: 0 nothing (or there is no
\* scope), 1 declared, 2 defined.
ScopeState(rs, name) ==
  IF Len(rs.scopes) = 0 THEN 0
  ELSE IF name \notin DOMAIN peekScope(rs) THEN 0
  ELSE IF peekScope(rs)[name] THEN 2 ELSE 1

resolveVariableExpr(rs, expr) ==
  LET Check(r0) ==
        resolveLocal(IF Len(r0.scopes) > 0 /\ expr.name \in DOMAIN peekScope(r0)
                        /\ peekScope(r0)[expr.name] = FALSE
                     THEN Lox_error(r0, "Can't read local variable in its own initializer.")
                     ELSE r0,
                     expr, expr.name)
  IN Check(Note(rs, Event("variable", expr.id, Len(rs.scopes),
                          ScopeState(rs, expr.name), Nil, expr.name)))

resolveThis(rs, expr) ==
  LET Check(r0) ==
        IF r0.currentClass = "NONE"
        THEN Lox_error(r0, "Can't use 'this' outside of a class.")
        ELSE resolveLocal(r0, expr, expr.keyword)
  IN Check(Note(rs, Event("this", expr.id, 0, 0, Nil, rs.currentClass)))

resolveSuper(rs, expr) ==
  LET Check(r0) ==
        resolveLocal(IF r0.currentClass = "NONE"
                     THEN Lox_error(r0, "Can't use 'super' outside of a class.")
                     ELSE IF r0.currentClass # "SUBCLASS"
                     THEN Lox_error(r0, "Can't use 'super' in a class with no superclass.")
                     ELSE r0,
                     expr, expr.keyword)
  IN Check(Note(rs, Event("super", expr.id, 0, 0, Nil, rs.currentClass)))

resolveAssignment(rs, expr) ==
  resolveLocal(resolve(rs, expr.value), expr, expr.name)

resolveReturn(rs, stmt) ==
  LET Value(r1) ==
        IF stmt.hasValue
        THEN resolve(IF r1.currentFunction = "INITIALIZER"
                     THEN Lox_error(r1, "Can't return a value from an initializer.")
                     ELSE r1,
                     stmt.value)
        ELSE r1
      Check(r0) ==
        Value(IF r0.currentFunction = "NONE"
              THEN Lox_error(r0, "Can't return from top-level code.")
              ELSE r0)
  IN Check(Note(rs, Event("return", 0, IF stmt.hasValue THEN 1 ELSE 0, 0, Nil,
                          rs.currentFunction)))

resolveAll(rs, nodes) ==
  IF nodes = <<>> THEN rs
  ELSE resolveAll(resolve(rs, Head(nodes)), Tail(nodes))

resolveStatements(rs, statements) ==
  IF statements = <<>> THEN rs
  ELSE resolveStatements(resolve(rs, Head(statements)), Tail(statements))

\* The nodes are visited in program order; naming the scope stack in the
\* guard makes each visit start from the state the previous visit left.
resolve(rs, node) ==
  IF Len(rs.scopes) < 0 THEN rs ELSE
  CASE node.kind = "Block" -> resolveBlockStatement(rs, node)
    [] node.kind = "Var" -> resolveVarStatement(rs, node)
    [] node.kind = "Function" -> resolveFunctionStatement(rs, node)
    [] node.kind = "Class" -> resolveClassStatement(rs, node)
    [] node.kind = "Expression" -> resolve(rs, node.expression)
    [] node.kind = "If" ->
         resolveAll(rs, <<node.condition, node.body>>
                        \o (IF node.hasElse THEN <<node.elseBody>> ELSE <<>>))
    [] node.kind = "Print" -> resolve(rs, node.expression)
    [] node.kind = "Return" -> resolveReturn(rs, node)
    [] node.kind = "While" -> resolveAll(rs, <<node.condition, node.body>>)
    [] node.kind = "Variable" -> resolveVariableExpr(rs, node)
    [] node.kind = "This" -> resolveThis(rs, node)
    [] node.kind = "Super" -> resolveSuper(rs, node)
    [] node.kind = "Assignment" -> resolveAssignment(rs, node)
    [] node.kind = "Binary" -> resolveAll(rs, <<node.left, node.right>>)
    [] node.kind = "Call" -> resolveAll(rs, <<node.callee>> \o node.args)
    [] node.kind = "Get" -> resolve(rs, node.object)
    [] node.kind = "Set" -> resolveAll(rs, <<node.value, node.object>>)
    [] node.kind = "Grouping" -> resolve(rs, node.expression)
    [] node.kind = "Literal" -> rs
    [] node.kind = "Unary" -> resolve(rs, node.right)

\* ------------------------------------------------------------- the sources
\* A source text is given by what the scanner and the parser make of it: the
\* statements parse() returns and the messages they hand to Lox.error.
Source(name, statements) == [name |-> name, statements |-> statements, staticErrors |-> <<>>]
\* A source for which the scanner or the parser reported errors.
SourceWithErrors(name, statements, staticErrors) ==
  [name |-> name, statements |-> statements, staticErrors |-> staticErrors]

\* Scenario 3:
\*   var a = "global";
\*   { fun showA() { print a; } showA(); var a = "block"; showA(); }
SrcClosure ==
  Source("closure",
    <<VarStmt("a", Literal(Str("global"))),
      BlockStmt(<<FunctionStmt("showA", <<>>, <<PrintStmt(Variable(101, "a"))>>),
                  ExpressionStmt(Call(Variable(102, "showA"), <<>>)),
                  VarStmt("a", Literal(Str("block"))),
                  ExpressionStmt(Call(Variable(103, "showA"), <<>>))>>)>>)

\*   fun outer() { var c = "captured"; fun inner() { print c; } return inner; }
\*   var h = outer();
\*   { var c = "caller"; h(); }
SrcCounter ==
  Source("counter",
    <<FunctionStmt("outer", <<>>,
        <<VarStmt("c", Literal(Str("captured"))),
          FunctionStmt("inner", <<>>, <<PrintStmt(Variable(201, "c"))>>),
          ReturnStmt(Variable(202, "inner"))>>),
      VarStmt("h", Call(Variable(203, "outer"), <<>>)),
      BlockStmt(<<VarStmt("c", Literal(Str("caller"))),
                  ExpressionStmt(Call(Variable(204, "h"), <<>>))>>)>>)

\*   var x = 0;
\*   print true or (x = 1);  print false and (x = 2);
\*   print nil or "r";       print 1 and "s";
\*   print x;
SrcLogic ==
  Source("logic",
    <<VarStmt("x", Literal(Num(0))),
      PrintStmt(At(301, Binary(At(302, Literal(Bool(TRUE))), "OR",
                               Assignment(303, "x", Literal(Num(1)))))),
      PrintStmt(At(304, Binary(At(305, Literal(Bool(FALSE))), "AND",
                               Assignment(306, "x", Literal(Num(2)))))),
      PrintStmt(At(307, Binary(At(308, Literal(Nil)), "OR", At(309, Literal(Str("r")))))),
      PrintStmt(At(310, Binary(At(311, Literal(Num(1))), "AND", At(312, Literal(Str("s")))))),
      PrintStmt(Variable(313, "x"))>>)

\*   var n = 0;
\*   fun tick() { n = n + 1; return n > 1; }
\*   print tick() or tick();  print tick() and tick();  print n;
SrcLogicCalls ==
  Source("logicCalls",
    <<VarStmt("n", Literal(Num(0))),
      FunctionStmt("tick", <<>>,
        <<ExpressionStmt(Assignment(401, "n", Binary(Variable(402, "n"), "PLUS", Literal(Num(1))))),
          ReturnStmt(Binary(Variable(403, "n"), "GREATER", Literal(Num(1))))>>),
      PrintStmt(At(404, Binary(At(405, Call(Variable(406, "tick"), <<>>)), "OR",
                               At(407, Call(Variable(408, "tick"), <<>>))))),
      PrintStmt(At(409, Binary(At(410, Call(Variable(411, "tick"), <<>>)), "AND",
                               At(412, Call(Variable(413, "tick"), <<>>))))),
      PrintStmt(Variable(414, "n"))>>)

\*   fun f(n) { while (true) { if (n > 0) { { return n; } } print "never"; return 0; }
\*              print "never2"; }
\*   fun g() { return; print "never3"; }
\*   fun h() { }
\*   fun k() { var r = f(1); print "after"; return r + 1; }
\*   print f(3); print g(); print h(); print k();
SrcReturn ==
  Source("return",
    <<FunctionStmt("f", <<"n">>,
        <<WhileStmt(Literal(Bool(TRUE)),
            BlockStmt(<<IfStmt(Binary(Variable(501, "n"), "GREATER", Literal(Num(0))),
                               BlockStmt(<<BlockStmt(<<ReturnStmt(Variable(502, "n"))>>)>>)),
                        PrintStmt(Literal(Str("never"))),
                        ReturnStmt(Literal(Num(0)))>>)),
          PrintStmt(Literal(Str("never2")))>>),
      FunctionStmt("g", <<>>, <<ReturnNothing, PrintStmt(Literal(Str("never3")))>>),
      FunctionStmt("h", <<>>, <<>>),
      FunctionStmt("k", <<>>,
        <<VarStmt("r", Call(Variable(503, "f"), <<Literal(Num(1))>>)),
          PrintStmt(Literal(Str("after"))),
          ReturnStmt(Binary(Variable(504, "r"), "PLUS", Literal(Num(1))))>>),
      PrintStmt(Call(Variable(505, "f"), <<Literal(Num(3))>>)),
      PrintStmt(Call(Variable(506, "g"), <<>>)),
      PrintStmt(Call(Variable(507, "h"), <<>>)),
      PrintStmt(Call(Variable(508, "k"), <<>>))>>)

\*   fun boom() { { var y = 1; { print y + "s"; } } }
\*   print "before";
\*   { var z = 2; boom(); }
\*   print "unreached";
SrcError ==
  Source("error",
    <<FunctionStmt("boom", <<>>,
        <<BlockStmt(<<VarStmt("y", Literal(Num(1))),
                      BlockStmt(<<PrintStmt(Binary(Variable(601, "y"), "PLUS",
                                                   Literal(Str("s"))))>>)>>)>>),
      PrintStmt(Literal(Str("before"))),
      BlockStmt(<<VarStmt("z", Literal(Num(2))),
                  ExpressionStmt(Call(Variable(602, "boom"), <<>>))>>),
      PrintStmt(Literal(Str("unreached")))>>)

\* Scenario 5:
\*   class P { init(x) { this.x = x; return; } }
\*   print P(7).x;
SrcInit ==
  Source("init",
    <<ClassStmt("P", <<FunctionStmt("init", <<"x">>,
                         <<ExpressionStmt(Set(This(701), "x", Variable(702, "x"))),
                           ReturnNothing>>)>>),
      PrintStmt(Get(Call(Variable(703, "P"), <<Literal(Num(7))>>), "x"))>>)

\*   class Q { init() { this.k = 1; } }
\*   var q = Q();
\*   print q.init() == q;
SrcInitDirect ==
  Source("initDirect",
    <<ClassStmt("Q", <<FunctionStmt("init", <<>>,
                         <<ExpressionStmt(Set(This(801), "k", Literal(Num(1))))>>)>>),
      VarStmt("q", Call(Variable(802, "Q"), <<>>)),
      PrintStmt(Binary(Call(Get(Variable(803, "q"), "init"), <<>>), "EQUAL_EQUAL",
                       Variable(804, "q")))>>)

\*   class R { init() { return; } }
\*   class S < R { init() { this.r = super.init(); this.s = 1; } }
\*   var o = S();
\*   print o.r == o;
SrcSuperInit ==
  Source("superInit",
    <<ClassStmt("R", <<FunctionStmt("init", <<>>, <<ReturnNothing>>)>>),
      SubClassStmt("S", Variable(901, "R"),
        <<FunctionStmt("init", <<>>,
            <<ExpressionStmt(Set(This(902), "r", Call(Super(903, "init"), <<>>))),
              ExpressionStmt(Set(This(904), "s", Literal(Num(1))))>>)>>),
      VarStmt("o", Call(Variable(905, "S"), <<>>)),
      PrintStmt(Binary(Get(Variable(906, "o"), "r"), "EQUAL_EQUAL", Variable(907, "o")))>>)

\*   class A { say() { print "A"; } }
\*   A().say();
SrcMethod ==
  Source("method",
    <<ClassStmt("A", <<FunctionStmt("say", <<>>, <<PrintStmt(Literal(Str("A")))>>)>>),
      ExpressionStmt(Call(Get(Call(Variable(1001, "A"), <<>>), "say"), <<>>))>>)

\*   class F { m() { print "method"; } }
\*   var f = F();
\*   f.m = "field";
\*   print f.m;
\*   print f.zz;
SrcField ==
  Source("field",
    <<ClassStmt("F", <<FunctionStmt("m", <<>>, <<PrintStmt(Literal(Str("method")))>>)>>),
      VarStmt("f", Call(Variable(1101, "F"), <<>>)),
      ExpressionStmt(Set(Variable(1102, "f"), "m", Literal(Str("field")))),
      PrintStmt(Get(Variable(1103, "f"), "m")),
      PrintStmt(Get(Variable(1104, "f"), "zz"))>>)

\* Scenario 4 with the method reached through init, and a longer chain:
\*   class A { say() { print "A"; } }
\*   class M < A { }
\*   class B < M { init() { super.say(); print "B"; }  say() { print "Bsay"; } }
\*   class C < B { say() { print "C"; } }
\*   C();
SrcSuper ==
  Source("super",
    <<ClassStmt("A", <<FunctionStmt("say", <<>>, <<PrintStmt(Literal(Str("A")))>>)>>),
      SubClassStmt("M", Variable(1201, "A"), <<>>),
      SubClassStmt("B", Variable(1202, "M"),
        <<FunctionStmt("init", <<>>,
            <<ExpressionStmt(Call(Super(1203, "say"), <<>>)),
              PrintStmt(Literal(Str("B")))>>),
          FunctionStmt("say", <<>>, <<PrintStmt(Literal(Str("Bsay")))>>)>>),
      SubClassStmt("C", Variable(1204, "B"),
        <<FunctionStmt("say", <<>>, <<PrintStmt(Literal(Str("C")))>>)>>),
      ExpressionStmt(Call(Variable(1205, "C"), <<>>))>>)

\*   class T { show() { print this.tag; } }
\*   class U < T { init(t) { this.tag = t; { super.show(); } } }
\*   U("u1"); U("u2");
SrcSuperThis ==
  Source("superThis",
    <<ClassStmt("T", <<FunctionStmt("show", <<>>, <<PrintStmt(Get(This(1301), "tag"))>>)>>),
      SubClassStmt("U", Variable(1302, "T"),
        <<FunctionStmt("init", <<"t">>,
            <<ExpressionStmt(Set(This(1303), "tag", Variable(1304, "t"))),
              BlockStmt(<<ExpressionStmt(Call(Super(1305, "show"), <<>>))>>)>>)>>),
      ExpressionStmt(Call(Variable(1306, "U"), <<Literal(Str("u1"))>>)),
      ExpressionStmt(Call(Variable(1307, "U"), <<Literal(Str("u2"))>>))>>)

\*   class V { }
\*   class W < V { init() { super.nope(); } }
\*   W();
SrcSuperMissing ==
  Source("superMissing",
    <<ClassStmt("V", <<>>),
      SubClassStmt("W", Variable(1401, "V"),
        <<FunctionStmt("init", <<>>, <<ExpressionStmt(Call(Super(1402, "nope"), <<>>))>>)>>),
      ExpressionStmt(Call(Variable(1403, "W"), <<>>))>>)

\*   var g = 1;
\*   fun set() { g = 2; }
\*   set(); print g;
\*   { u = 1; }
SrcAssign ==
  Source("assign",
    <<VarStmt("g", Literal(Num(1))),
      FunctionStmt("set", <<>>, <<ExpressionStmt(Assignment(1501, "g", Literal(Num(2))))>>),
      ExpressionStmt(Call(Variable(1502, "set"), <<>>)),
      PrintStmt(Variable(1503, "g")),
      BlockStmt(<<ExpressionStmt(Assignment(1504, "u", Literal(Num(1))))>>)>>)

\*   print u;
SrcReadU ==
  Source("readU", <<PrintStmt(Variable(1601, "u"))>>)

\*   print !nil; print !false; print !0; print !"";
\*   if (0) print "zero"; else print "not zero";
\*   var i = 0; while (i < 2) { print i; i = i + 1; }
SrcTruthy ==
  Source("truthy",
    <<PrintStmt(Unary("BANG", Literal(Nil))),
      PrintStmt(Unary("BANG", Literal(Bool(FALSE)))),
      PrintStmt(Unary("BANG", Literal(Num(0)))),
      PrintStmt(Unary("BANG", Literal(Str("")))),
      IfElseStmt(Literal(Num(0)), PrintStmt(Literal(Str("zero"))),
                 PrintStmt(Literal(Str("not zero")))),
      VarStmt("i", Literal(Num(0))),
      WhileStmt(Binary(Variable(1701, "i"), "LESS", Literal(Num(2))),
        BlockStmt(<<PrintStmt(Variable(1702, "i")),
                    ExpressionStmt(Assignment(1703, "i",
                      Binary(Variable(1704, "i"), "PLUS", Literal(Num(1)))))>>))>>)

\*   fun NotAClass() {}
\*   { var k = 1; class Sub < NotAClass { m() { return super.m(); } } print "unreached"; }
SrcBadSuperFn ==
  Source("badSuperFn",
    <<FunctionStmt("NotAClass", <<>>, <<>>),
      BlockStmt(<<VarStmt("k", Literal(Num(1))),
                  SubClassStmt("Sub", Variable(1801, "NotAClass"),
                    <<FunctionStmt("m", <<>>,
                        <<ReturnStmt(Call(Super(1802, "m"), <<>>))>>)>>),
                  PrintStmt(Literal(Str("unreached")))>>)>>)

\*   var notAClass = "s";
\*   class Sub2 < notAClass {}
\*   print "unreached";
SrcBadSuperStr ==
  Source("badSuperStr",
    <<VarStmt("notAClass", Literal(Str("s"))),
      SubClassStmt("Sub2", Variable(1901, "notAClass"), <<>>),
      PrintStmt(Literal(Str("unreached")))>>)

\*   print "p"; print ; print "q";
\* The parser reports `Expect expression.` at the second `;`, resumes after
\* it and returns the first and the third statement.
SrcParseError ==
  SourceWithErrors("parseError",
    <<PrintStmt(Literal(Str("p"))), PrintStmt(Literal(Str("q")))>>,
    <<"Expect expression.">>)

\*   print "p"; @
\* The scanner reports `Unexpected character.` and the parser sees print "p";
SrcScanError ==
  SourceWithErrors("scanError", <<PrintStmt(Literal(Str("p")))>>,
                   <<"Unexpected character.">>)

\*   print "before"; fun f() { return 1; } return 2;
SrcLateReturn ==
  Source("lateReturn",
    <<PrintStmt(Literal(Str("before"))),
      FunctionStmt("f", <<>>, <<ReturnStmt(Literal(Num(1)))>>),
      ReturnStmt(Literal(Num(2)))>>)

\*   class A3 { init() { fun g() { return 1; } return; } m() { return 2; } }
\*   fun f3() { return 3; }
\*   print f3();
SrcReturns ==
  Source("returns",
    <<ClassStmt("A3",
        <<FunctionStmt("init", <<>>,
            <<FunctionStmt("g", <<>>, <<ReturnStmt(Literal(Num(1)))>>), ReturnNothing>>),
          FunctionStmt("m", <<>>, <<ReturnStmt(Literal(Num(2)))>>)>>),
      FunctionStmt("f3", <<>>, <<ReturnStmt(Literal(Num(3)))>>),
      PrintStmt(Call(Variable(2001, "f3"), <<>>))>>)

\*   class A4 { init() { return 1; } }
\*   return;
SrcReturnInit ==
  Source("returnInit",
    <<ClassStmt("A4",
        <<FunctionStmt("init", <<>>, <<ReturnStmt(Literal(Num(1)))>>)>>),
      ReturnNothing>>)

\*   class B5 { m() { return this; } }
\*   class D5 < B5 {
\*     m() { class N5 { k() { return this; } } return super.m; }
\*     n() { return super.m; }
\*   }
SrcClassTypes ==
  Source("classTypes",
    <<ClassStmt("B5", <<FunctionStmt("m", <<>>, <<ReturnStmt(This(2101))>>)>>),
      SubClassStmt("D5", Variable(2102, "B5"),
        <<FunctionStmt("m", <<>>,
            <<ClassStmt("N5", <<FunctionStmt("k", <<>>, <<ReturnStmt(This(2103))>>)>>),
              ReturnStmt(Super(2104, "m"))>>),
          FunctionStmt("n", <<>>, <<ReturnStmt(Super(2105, "m"))>>)>>)>>)

\*   print this;
\*   class E5 { m() { } }
\*   fun f5() { return this; }
SrcThisOutside ==
  Source("thisOutside",
    <<PrintStmt(This(2201)),
      ClassStmt("E5", <<FunctionStmt("m", <<>>, <<>>)>>),
      FunctionStmt("f5", <<>>, <<ReturnStmt(This(2202))>>)>>)

\*   class F5 { m() { return super.m; } }
\*   class G5 < F5 { m() { class H5 { k() { return super.k; } } } }
\*   print super.x;
SrcSuperBad ==
  Source("superBad",
    <<ClassStmt("F5", <<FunctionStmt("m", <<>>, <<ReturnStmt(Super(2301, "m"))>>)>>),
      SubClassStmt("G5", Variable(2302, "F5"),
        <<FunctionStmt("m", <<>>,
            <<ClassStmt("H5",
                <<FunctionStmt("k", <<>>, <<ReturnStmt(Super(2303, "k"))>>)>>)>>)>>),
      PrintStmt(Super(2304, "x"))>>)

\*   { var a6 = 1; var a6 = 2; }
\*   fun f6(p, p) { }
\*   fun g6(q) { var q; }
\*   { fun h6() { } fun h6() { } }
SrcDupLocal ==
  Source("dupLocal",
    <<BlockStmt(<<VarStmt("a6", Literal(Num(1))), VarStmt("a6", Literal(Num(2)))>>),
      FunctionStmt("f6", <<"p", "p">>, <<>>),
      FunctionStmt("g6", <<"q">>, <<VarNoInit("q")>>),
      BlockStmt(<<FunctionStmt("h6", <<>>, <<>>), FunctionStmt("h6", <<>>, <<>>)>>)>>)

\*   var a7 = 1; var a7 = 2; print a7;
\*   { var a7 = 3; print a7; { var a7 = 4; print a7; } var b7 = 5; }
\*   fun f7(a7) { { var a7 = 6; print a7; } }
\*   f7(0);
SrcShadow ==
  Source("shadow",
    <<VarStmt("a7", Literal(Num(1))), VarStmt("a7", Literal(Num(2))),
      PrintStmt(Variable(2401, "a7")),
      BlockStmt(<<VarStmt("a7", Literal(Num(3))), PrintStmt(Variable(2402, "a7")),
                  BlockStmt(<<VarStmt("a7", Literal(Num(4))),
                              PrintStmt(Variable(2403, "a7"))>>),
                  VarStmt("b7", Literal(Num(5)))>>),
      FunctionStmt("f7", <<"a7">>,
        <<BlockStmt(<<VarStmt("a7", Literal(Num(6))), PrintStmt(Variable(2404, "a7"))>>)>>),
      ExpressionStmt(Call(Variable(2405, "f7"), <<Literal(Num(0))>>))>>)

\*   { var a8 = a8; }
\*   { var b8 = 1; { var b8 = b8; } }
SrcOwnInit ==
  Source("ownInit",
    <<BlockStmt(<<VarStmt("a8", Variable(2501, "a8"))>>),
      BlockStmt(<<VarStmt("b8", Literal(Num(1))),
                  BlockStmt(<<VarStmt("b8", Variable(2502, "b8"))>>)>>)>>)

\*   var c9 = 1; var c9 = c9; print c9;
\*   { var d9 = 2; print d9; var e9 = d9; print e9; { var f9 = e9; print f9; } }
SrcReadAfter ==
  Source("readAfter",
    <<VarStmt("c9", Literal(Num(1))), VarStmt("c9", Variable(2601, "c9")),
      PrintStmt(Variable(2602, "c9")),
      BlockStmt(<<VarStmt("d9", Literal(Num(2))), PrintStmt(Variable(2603, "d9")),
                  VarStmt("e9", Variable(2604, "d9")), PrintStmt(Variable(2605, "e9")),
                  BlockStmt(<<VarStmt("f9", Variable(2606, "e9")),
                              PrintStmt(Variable(2607, "f9"))>>)>>)>>)

\* Scenario 6:  return 1;
SrcTopReturn ==
  Source("topReturn", <<ReturnStmt(Literal(Num(1)))>>)

\* A counter closed over a local, and locals assigned from inner blocks:
\*   fun make() { var n = 0;
\*     fun inc() { n = n + 1; { var k = n; k = k + n; print k; } return n; }
\*     return inc; }
\*   var c = make(); print c(); print c();
\*   { var a = 1; { a = a + 1; } print a; }
SrcLocalAssign ==
  Source("localAssign",
    <<FunctionStmt("make", <<>>,
        <<VarStmt("n", Literal(Num(0))),
          FunctionStmt("inc", <<>>,
            <<ExpressionStmt(Assignment(3301, "n",
                Binary(Variable(3302, "n"), "PLUS", Literal(Num(1))))),
              BlockStmt(<<VarStmt("k", Variable(3303, "n")),
                          ExpressionStmt(Assignment(3304, "k",
                            Binary(Variable(3305, "k"), "PLUS", Variable(3306, "n")))),
                          PrintStmt(Variable(3307, "k"))>>),
              ReturnStmt(Variable(3308, "n"))>>),
          ReturnStmt(Variable(3309, "inc"))>>),
      VarStmt("c", Call(Variable(3310, "make"), <<>>)),
      PrintStmt(Call(Variable(3311, "c"), <<>>)),
      PrintStmt(Call(Variable(3312, "c"), <<>>)),
      BlockStmt(<<VarStmt("a", Literal(Num(1))),
                  BlockStmt(<<ExpressionStmt(Assignment(3313, "a",
                                Binary(Variable(3314, "a"), "PLUS", Literal(Num(1)))))>>),
                  PrintStmt(Variable(3315, "a"))>>)>>)

Sources ==
  <<SrcClosure, SrcCounter, SrcLogic, SrcLogicCalls, SrcReturn, SrcError, SrcInit,
    SrcInitDirect, SrcSuperInit, SrcMethod, SrcField, SrcSuper, SrcSuperThis,
    SrcSuperMissing, SrcAssign, SrcReadU, SrcTruthy, SrcTopReturn, SrcBadSuperFn,
    SrcBadSuperStr, SrcParseError, SrcScanError, SrcLateReturn, SrcReturns,
    SrcReturnInit, SrcClassTypes, SrcThisOutside, SrcSuperBad,
    SrcDupLocal, SrcShadow, SrcOwnInit, SrcReadAfter, SrcLocalAssign>>

\* ------------------------------------------------------------------- Lox
\* interpreter, hadError, hadRuntimeError: the static members of Lox.
\* diagnostics: the messages given to Lox.error so far.
\* pc: "main" before Lox.main chose, "prompt" while the REPL waits for a line,
\*     "exit" after process.exit or the end of the script, "crashed" after an
\*     exception nothing caught.
\* last: the source of the latest run, what left Interpreter.interpret
\*     uncaught ("ok" for nothing), and what held before it: the lengths of
\*     out, trace and diagnostics, hadRuntimeError and pc; and the history
\*     of the resolver's pass over it.
VARIABLES interpreter, hadError, hadRuntimeError, diagnostics, pc, exitCode, lines, last

vars == <<interpreter, hadError, hadRuntimeError, diagnostics, pc, exitCode, lines, last>>

\* The static members of Lox as one record, threaded through Lox.run.
LoxState(now) ==
  [interpreter |-> [interpreter EXCEPT !.steps = 0, !.now = now],
   hadError |-> hadError, hadRuntimeError |-> hadRuntimeError,
   diagnostics |-> diagnostics, thrown |-> "ok", interpreted |-> FALSE,
   resolved |-> <<>>, resolver |-> NotResolved]

\* The resolver as resolveStatements left it.
ResolverLeft(rs) ==
  [ran |-> TRUE, scopes |-> Len(rs.scopes), currentFunction |-> rs.currentFunction,
   currentClass |-> rs.currentClass]

\* Lox.runtimeError(err): console.log of the message, hadRuntimeError = true.
Lox_runtimeError(L, message) ==
  [L EXCEPT !.interpreter.out = Append(@, message),
            !.interpreter.trace = Append(@, Event("runtimeError", 0, 0, 0, Nil, message)),
            !.hadRuntimeError = TRUE]

\* Interpreter.interpret with its catch: a RuntimeError is reported, anything
\* else thrown (Return, Error) leaves interpret uncaught.
Interpreter_interpret(L, statements) ==
  LET Caught(r) ==
        IF r.sig = "RuntimeError"
        THEN Lox_runtimeError([L EXCEPT !.interpreter = r.s, !.interpreted = TRUE], r.msg)
        ELSE [L EXCEPT !.interpreter = r.s, !.interpreted = TRUE, !.thrown = r.sig]
  IN Caught(interpret(L.interpreter, statements))

\* Lox.report, once per message.
ReportAll(L, messages) ==
  IF messages = <<>> THEN L
  ELSE [L EXCEPT !.diagnostics = @ \o messages, !.hadError = TRUE]

\* Lox.run without the check of hadError after the resolver.
Lox_run_Unchecked(L, source) ==
  LET Resolve(L1, rs) ==
        Interpreter_interpret(ReportAll([L1 EXCEPT !.interpreter.locals = rs.locals,
                                                   !.resolved = rs.history,
                                                   !.resolver = ResolverLeft(rs)],
                                   rs.errors),
                              source.statements)
      Parse(L1) ==
        IF L1.hadError THEN L1
        ELSE Resolve(L1, resolveStatements(NewResolver(L1.interpreter.locals),
                                           source.statements))
  IN Parse(ReportAll(L, source.staticErrors))

Lox_run(L, source) ==
  LET Interpret(L2) ==
        IF L2.hadError THEN L2 ELSE Interpreter_interpret(L2, source.statements)
      Resolve(L1, rs) ==
        Interpret(ReportAll([L1 EXCEPT !.interpreter.locals = rs.locals,
                                       !.resolved = rs.history,
                                       !.resolver = ResolverLeft(rs)], rs.errors))
      Parse(L1) ==
        IF L1.hadError THEN L1
        ELSE Resolve(L1, resolveStatements(NewResolver(L1.interpreter.locals),
                                           source.statements))
  IN Parse(ReportAll(L, source.staticErrors))

\* The clock readings Date.now() may give during one run.
MaxClock == 1
Times == 0 .. MaxClock

Ran(source, L) ==
  [name |-> source.name, thrown |-> L.thrown, interpreted |-> L.interpreted,
   out |-> Len(interpreter.out), trace |-> Len(interpreter.trace),
   errors |-> Len(diagnostics), runtime |-> hadRuntimeError, mode |-> pc,
   resolved |-> L.resolved, resolver |-> L.resolver]

Init ==
  /\ interpreter = NewInterpreter
  /\ hadError = FALSE
  /\ hadRuntimeError = FALSE
  /\ diagnostics = <<>>
  /\ pc = "main"
  /\ exitCode = -1
  /\ lines = 0
  /\ last = [name |-> "", thrown |-> "ok", interpreted |-> FALSE, out |-> 0, trace |-> 0,
             errors |-> 0, runtime |-> FALSE, mode |-> "", resolved |-> <<>>,
             resolver |-> NotResolved]

\* Lox.main with more than one argument.
main_usage ==
  /\ pc = "main"
  /\ pc' = "exit"
  /\ exitCode' = 64
  /\ UNCHANGED <<interpreter, hadError, hadRuntimeError, diagnostics, lines, last>>

\* Lox.main with one argument: Lox.runFile(path).
runFile(source, now) ==
  /\ pc = "main"
  /\ \E L \in {Lox_run(LoxState(now), source)} :
     /\ L.thrown # "Fuel"
     /\ interpreter' = [L.interpreter EXCEPT !.now = 0]
     /\ hadError' = L.hadError
     /\ hadRuntimeError' = L.hadRuntimeError
     /\ diagnostics' = L.diagnostics
     /\ pc' = IF L.thrown # "ok" THEN "crashed" ELSE "exit"
     /\ exitCode' = IF L.thrown # "ok" THEN 1
                    ELSE IF L.hadError THEN 65
                    ELSE IF L.hadRuntimeError THEN 70
                    ELSE 0
     /\ last' = Ran(source, L)
  /\ lines' = lines + 1

\* Lox.main with no argument: Lox.runPrompt() asks for the first line.
runPrompt ==
  /\ pc = "main"
  /\ pc' = "prompt"
  /\ UNCHANGED <<interpreter, hadError, hadRuntimeError, diagnostics, exitCode, lines, last>>

\* The callback without `Lox.hadError = false`.
runNextLine_KeepsFlag(source, now) ==
  /\ pc = "prompt"
  /\ lines < MaxLines
  /\ \E L \in {Lox_run(LoxState(now), source)} :
     /\ L.thrown # "Fuel"
     /\ interpreter' = [L.interpreter EXCEPT !.now = 0]
     /\ hadError' = L.hadError
     /\ hadRuntimeError' = L.hadRuntimeError
     /\ diagnostics' = L.diagnostics
     /\ pc' = IF L.thrown # "ok" THEN "crashed" ELSE "prompt"
     /\ exitCode' = IF L.thrown # "ok" THEN 1 ELSE exitCode
     /\ last' = Ran(source, L)
  /\ lines' = lines + 1

\* The callback of reader.question: Lox.run(line); Lox.hadError = false; runNextLine().
runNextLine(source, now) ==
  /\ pc = "prompt"
  /\ lines < MaxLines
  /\ \E L \in {Lox_run(LoxState(now), source)} :
     /\ L.thrown # "Fuel"
     /\ interpreter' = [L.interpreter EXCEPT !.now = 0]
     /\ hadError' = FALSE
     /\ hadRuntimeError' = L.hadRuntimeError
     /\ diagnostics' = L.diagnostics
     /\ pc' = IF L.thrown # "ok" THEN "crashed" ELSE "prompt"
     /\ exitCode' = IF L.thrown # "ok" THEN 1 ELSE exitCode
     /\ last' = Ran(source, L)
  /\ lines' = lines + 1

Next ==
  \/ main_usage
  \/ runPrompt
  \/ \E n \in DOMAIN Sources, now \in Times : runFile(Sources[n], now)
  \/ \E n \in DOMAIN Sources, now \in Times : runNextLine(Sources[n], now)

Spec == Init /\ [][Next]_vars

\* ------------------------------------------------------- reading the history
\* What the latest run printed, and the events it logged.
LastOut == SubSeq(interpreter.out, last.out + 1, Len(interpreter.out))
Trace == interpreter.trace


\* ------------------------------------------- the first interpreter version
\* The expression interpreter the repository had before statements were
\* added: it evaluates one expression and prints its value.  It has no
\* state of its own; a completion carries 0 where the later one carries s.
Earlier_isTruthy(value) == value.t = "nil" \/ (value.t = "bool" /\ value.v = FALSE)

Earlier_stringify(value) ==
  IF value.t = "nil" THEN "nil"
  ELSE CASE value.t = "num" -> ToString(value.v)
         [] value.t = "bool" -> IF value.v THEN "true" ELSE "false"
         [] value.t = "str" -> value.v

Earlier_checkNumberOperand(operand) ==
  IF operand.t = "num" THEN Ok(0, operand)
  ELSE Throw(0, "Operand must be a number.")

Earlier_checkNumberOperands(left, right) ==
  IF left.t = "num" /\ right.t = "num" THEN Ok(0, Nil)
  ELSE Throw(0, "Operands must be numbers.")

RECURSIVE Earlier_evaluate(_)

Earlier_interpretUnary(unary) ==
  LET right == Earlier_evaluate(unary.right) IN
  IF right.sig # "ok" THEN right
  ELSE CASE unary.operator = "BANG" -> Ok(0, Bool(~Earlier_isTruthy(right.v)))
         [] unary.operator = "MINUS" ->
              LET c == Earlier_checkNumberOperand(right.v) IN
              IF c.sig # "ok" THEN c ELSE Ok(0, Num(0 - right.v.v))

Earlier_interpretBinary(binary) ==
  LET left == Earlier_evaluate(binary.left)
      right == Earlier_evaluate(binary.right)
      op == binary.operator
      c == Earlier_checkNumberOperands(left.v, right.v)
      l == left.v.v
      r == right.v.v
  IN IF left.sig # "ok" THEN left
     ELSE IF right.sig # "ok" THEN right
     ELSE CASE op = "PLUS" ->
                 IF left.v.t = "num" /\ right.v.t = "num" THEN Ok(0, Num(l + r))
                 ELSE IF left.v.t = "str" /\ right.v.t = "str" THEN Ok(0, Str(l \o r))
                 ELSE Throw(0, "Operands must be two numbers or two strings.")
            [] op = "MINUS" -> IF c.sig # "ok" THEN c ELSE Ok(0, Num(l - r))
            [] op = "STAR" -> IF c.sig # "ok" THEN c ELSE Ok(0, Num(l * r))
            [] op = "SLASH" -> IF c.sig # "ok" THEN c
                               ELSE IF r # 0 /\ l % r = 0 THEN Ok(0, Num(l \div r))
                               ELSE OutOfFuel(0)
            [] op = "EQUAL_EQUAL" -> Ok(0, Bool(StrictEq(left.v, right.v)))
            [] op = "BANG_EQUAL" -> Ok(0, Bool(~StrictEq(left.v, right.v)))
            [] op = "GREATER" -> IF c.sig # "ok" THEN c ELSE Ok(0, Bool(l > r))
            [] op = "GREATER_EQUAL" -> IF c.sig # "ok" THEN c ELSE Ok(0, Bool(l >= r))
            [] op = "LESS" -> IF c.sig # "ok" THEN c ELSE Ok(0, Bool(l < r))
            [] op = "LESS_EQUAL" -> IF c.sig # "ok" THEN c ELSE Ok(0, Bool(l <= r))

Earlier_evaluate(expr) ==
  CASE expr.kind = "Literal" -> Ok(0, expr.value)
    [] expr.kind = "Unary" -> Earlier_interpretUnary(expr)
    [] expr.kind = "Binary" -> Earlier_interpretBinary(expr)
    [] expr.kind = "Grouping" -> Earlier_evaluate(expr.expression)

\* The expressions handed to the first version: the literals, the unary
\* operators on them (once and twice) and the binary operators on pairs.
EarlierValues == <<Nil, Bool(TRUE), Bool(FALSE), Num(0), Num(1), Str(""), Str("a")>>
EarlierLiterals == [n \in DOMAIN EarlierValues |-> Literal(EarlierValues[n])]
EarlierUnaries ==
  [n \in DOMAIN EarlierLiterals |-> Unary("BANG", EarlierLiterals[n])]
    \o [n \in DOMAIN EarlierLiterals |-> Unary("MINUS", EarlierLiterals[n])]
EarlierOperators ==
  <<"PLUS", "MINUS", "STAR", "SLASH", "EQUAL_EQUAL", "BANG_EQUAL",
    "GREATER", "GREATER_EQUAL", "LESS", "LESS_EQUAL">>
EarlierBinaries(op) ==
  [n \in 1 .. (Len(EarlierLiterals) * Len(EarlierLiterals)) |->
     Binary(EarlierLiterals[((n - 1) \div Len(EarlierLiterals)) + 1], op,
            EarlierLiterals[((n - 1) % Len(EarlierLiterals)) + 1])]
RECURSIVE EarlierAllBinaries(_)
EarlierAllBinaries(k) ==
  IF k = 0 THEN <<>>
  ELSE EarlierAllBinaries(k - 1) \o EarlierBinaries(EarlierOperators[k])
EarlierExprs ==
  EarlierLiterals \o EarlierUnaries
    \o [n \in DOMAIN EarlierUnaries |-> Unary("BANG", Grouping(EarlierUnaries[n]))]
    \o EarlierAllBinaries(Len(EarlierOperators))

\* Interpreter.interpret(expr) of the first version: console.log of the
\* value, or Lox.runtimeError of the RuntimeError it caught.
Earlier_interpret(expr) ==
  /\ pc = "main"
  /\ \E value \in {Earlier_evaluate(expr)} :
       /\ value.sig # "Fuel"
       /\ interpreter' = [interpreter EXCEPT !.out =
            Append(@, IF value.sig = "ok" THEN Earlier_stringify(value.v) ELSE value.msg)]
       /\ hadRuntimeError' = (value.sig = "RuntimeError")
       /\ last' = [name |-> "expression", thrown |-> value.sig, interpreted |-> TRUE,
                   out |-> 0, trace |-> 0, expr |-> expr]
  /\ pc' = "exit"
  /\ UNCHANGED <<hadError, diagnostics, exitCode, lines>>

EarlierNext == \E n \in DOMAIN EarlierExprs : Earlier_interpret(EarlierExprs[n])

SpecEarlier == Init /\ [][EarlierNext]_vars

\* ------------------------------------------------ properties of the history
\* The values the language treats as false.
Falsy(v) == v.t = "nil" \/ (v.t = "bool" /\ v.v = FALSE)

\* The number of user-function calls running when event i is logged.
CallDepth(i) ==
  Cardinality({c \in 1 .. (i - 1) : Trace[c].e = "call"})
    - Cardinality({c \in 1 .. (i - 1) : Trace[c].e = "callExit"})

\* The innermost user-function call running at event i: the last call event
\* before i that was logged one level up.
OpenCall(i) ==
  CHOOSE j \in 1 .. (i - 1) :
    /\ Trace[j].e = "call" /\ CallDepth(j) = CallDepth(i) - 1
    /\ \A c \in (j + 1) .. (i - 1) :
         Trace[c].e = "call" => CallDepth(c) # CallDepth(i) - 1

\* For the event i logged inside the evaluation of node Trace[i].id: where
\* that evaluation started and where it returned.
NodeStart(i) ==
  CHOOSE p \in 1 .. i :
    /\ Trace[p].e = "eval" /\ Trace[p].id = Trace[i].id
    /\ \A q \in (p + 1) .. i : ~(Trace[q].e = "eval" /\ Trace[q].id = Trace[i].id)
NodeEnd(i) ==
  CHOOSE q \in i .. Len(Trace) :
    /\ Trace[q].e = "value" /\ Trace[q].id = Trace[i].id
    /\ \A p \in i .. (q - 1) : ~(Trace[p].e = "value" /\ Trace[p].id = Trace[i].id)

\* C1: every call of a declared function runs its body in a frame that no
\* statement ran in before, that no other call uses, and whose parent is the
\* environment its declaration was executed in, not the caller's; and the
\* function of scenario 3, declared in a block while `a` is only global,
\* prints "global" on both calls.
ClosureCapture ==
  /\ \A i \in DOMAIN Trace :
       Trace[i].e = "call" =>
         /\ \A j \in DOMAIN Trace :
              (Trace[j].e = "declare" /\ Trace[j].id = Trace[i].id)
                => interpreter.envs[Trace[i].a].enclosing = Trace[j].a
         /\ Trace[i].a # Trace[i].b
         /\ \A k \in DOMAIN Trace :
              (k # i /\ Trace[k].e = "call") => Trace[k].a # Trace[i].a
         /\ \A k \in 1 .. (i - 1) : Trace[k].e = "exec" => Trace[k].a # Trace[i].a
  /\ (last.name = "closure" /\ last.interpreted) => LastOut = <<"global", "global">>

\* Scenario 3 has run, and some declared function was called from an
\* environment other than the one it was declared in.
ClosureCaptureWitness ==
  /\ last.name = "closure" /\ LastOut = <<"global", "global">>
  /\ \E i, j \in DOMAIN Trace :
       /\ Trace[i].e = "call" /\ Trace[j].e = "declare" /\ Trace[j].id = Trace[i].id
       /\ Trace[i].b # Trace[j].a

\* `L op R` returns without evaluating R.
ShortCircuits(ev) == (ev.x = "OR" /\ ~Falsy(ev.v)) \/ (ev.x = "AND" /\ Falsy(ev.v))

\* C2: a logical expression that short-circuits yields the value of its left
\* operand, and every other logical expression (`or` with a falsy left
\* operand, `and` with a truthy one) yields the value its right operand was
\* evaluated to.
LogicalResult ==
  \A i \in DOMAIN Trace :
    (Trace[i].e = "logical" /\ Trace[NodeEnd(i)].x = "ok") =>
      IF ShortCircuits(Trace[i])
      THEN StrictEq(Trace[NodeEnd(i)].v, Trace[i].v)
      ELSE \E r \in (i + 1) .. (NodeEnd(i) - 1) :
             /\ Trace[r].e = "value" /\ Trace[r].id = Trace[i].b
             /\ Trace[r].x = "ok" /\ StrictEq(Trace[r].v, Trace[NodeEnd(i)].v)

\* C3: when `a or b` has a truthy a, or `a and b` a falsy a, the expression
\* returns right after a: b is not evaluated; and between the start and the
\* end of every logical expression its left operand is evaluated once.
ShortCircuit ==
  \A i \in DOMAIN Trace :
    Trace[i].e = "logical" =>
      /\ Trace[i].id # 0 /\ Trace[i].a # 0 /\ Trace[i].b # 0
      /\ ShortCircuits(Trace[i]) =>
           /\ NodeEnd(i) = i + 1
           /\ \A q \in NodeStart(i) .. NodeEnd(i) :
                ~(Trace[q].e = "eval" /\ Trace[q].id = Trace[i].b)
      /\ Cardinality({q \in NodeStart(i) .. NodeEnd(i) :
                        Trace[q].e = "eval" /\ Trace[q].id = Trace[i].a}) = 1

\* An `or` and an `and` have both short-circuited over a right operand that
\* is an assignment, an `and` has gone on to its right operand, and the
\* variable the assignments name still has its first value.
ShortCircuitWitness ==
  /\ last.name = "logic" /\ LastOut[1] = "true" /\ LastOut[2] = "false" /\ LastOut[5] = "0"
  /\ \E i \in DOMAIN Trace :
       Trace[i].e = "logical" /\ Trace[i].x = "OR" /\ ShortCircuits(Trace[i])
  /\ \E i \in DOMAIN Trace :
       Trace[i].e = "logical" /\ Trace[i].x = "AND" /\ ShortCircuits(Trace[i])
  /\ \E i \in DOMAIN Trace :
       Trace[i].e = "logical" /\ ~ShortCircuits(Trace[i])

\* C4: the environment cursor after every block and every user-function
\* call equals the cursor before it, whether the block or call completed,
\* was unwound by a return or by a runtime error; a finished run leaves the
\* cursor on the globals.
CursorRestored ==
  /\ \A i \in DOMAIN Trace :
       Trace[i].e \in {"blockExit", "callExit"} => Trace[i].a = Trace[i].b
  /\ interpreter.environment = Globals

\* Nested blocks have been left by a return and by a runtime error, a call
\* has been left by a runtime error, and blocks and calls have completed.
CursorRestoredWitness ==
  /\ \E i \in DOMAIN Trace :
       Trace[i].e = "blockExit" /\ Trace[i].x = "Return" /\ Trace[i].a # Globals
  /\ \E i \in DOMAIN Trace :
       Trace[i].e = "blockExit" /\ Trace[i].x = "RuntimeError" /\ Trace[i].a # Globals
  /\ \E i \in DOMAIN Trace :
       Trace[i].e = "callExit" /\ Trace[i].x = "RuntimeError" /\ Trace[i].a # Globals
  /\ \E i \in DOMAIN Trace : Trace[i].e = "blockExit" /\ Trace[i].x = "ok"
  /\ \E i \in DOMAIN Trace :
       Trace[i].e = "callExit" /\ Trace[i].x = "ok" /\ Trace[i].a # Globals

\* C5: after a return statement nothing happens but the enclosing blocks
\* being left, up to the exit of the innermost running call, which completes
\* with the returned value (nil for a bare return); a call whose body ran to
\* its end yields nil; initializers apart.  No call exits with the return
\* signal, and no run ends with it.
ReturnUnwinds ==
  /\ \A i \in DOMAIN Trace :
       Trace[i].e = "throwReturn" =>
         /\ Trace[i].a = 0 => Trace[i].v.t = "nil"
         /\ \E k \in (i + 1) .. Len(Trace) :
              /\ Trace[k].e = "callExit" /\ Trace[k].x = "ok"
              /\ \A j \in (i + 1) .. (k - 1) :
                   Trace[j].e = "blockExit" /\ Trace[j].x = "Return"
              /\ Trace[k].id = Trace[OpenCall(i)].id
              /\ ~interpreter.funs[Trace[k].id].isInitializer => StrictEq(Trace[k].v, Trace[i].v)
  /\ \A k \in DOMAIN Trace :
       Trace[k].e = "callExit" =>
         /\ Trace[k].x # "Return"
         /\ (/\ k > 1 /\ Trace[k - 1].e = "blockExit" /\ Trace[k - 1].x = "ok"
             /\ ~interpreter.funs[Trace[k].id].isInitializer)
              => (Trace[k].x = "ok" /\ Trace[k].v.t = "nil")
  /\ last.thrown # "Return"
  /\ (last.name = "return" /\ last.interpreted)
       => LastOut = <<"3", "nil", "nil", "after", "2">>

\* The returns of the `return` source have run: one under a while loop, an
\* if and two blocks; one inside a call made by another call, which went on.
ReturnUnwindsWitness ==
  /\ last.name = "return" /\ LastOut = <<"3", "nil", "nil", "after", "2">>
  /\ \E i \in DOMAIN Trace :
       /\ Trace[i].e = "throwReturn" /\ StrictEq(Trace[i].v, Num(1))
       /\ Trace[i + 1].e = "blockExit" /\ Trace[i + 2].e = "blockExit"
       /\ Trace[i + 3].e = "blockExit" /\ Trace[i + 4].e = "blockExit"
       /\ Trace[i + 5].e = "callExit"
       /\ \E j \in 1 .. (OpenCall(i) - 1) : Trace[j].e = "call" /\ Trace[j].x = "k"

\* The function `bound` is `method` bound to the instance inst: the same
\* declaration, closed over a frame that holds only this = inst and whose
\* parent is the closure of `method`.
BoundTo(bound, method, inst) ==
  /\ interpreter.funs[bound].declaration = interpreter.funs[method].declaration
  /\ interpreter.funs[bound].isInitializer = interpreter.funs[method].isInitializer
  /\ interpreter.envs[interpreter.funs[bound].closure].enclosing
       = interpreter.funs[method].closure
  /\ DOMAIN interpreter.envs[interpreter.funs[bound].closure].values = {"this"}
  /\ StrictEq(interpreter.envs[interpreter.funs[bound].closure].values["this"],
              InstRef(inst))

\* C6: every completed call of an initializer yields the `this` of its
\* closure, on fall-through and on `return;`; `P(7).x` prints 7, and
\* `q.init() == q`, the initializer called on the instance, prints true.
InitializerReturnsInstance ==
  /\ \A k \in DOMAIN Trace :
       (/\ Trace[k].e = "callExit" /\ Trace[k].x = "ok"
        /\ interpreter.funs[Trace[k].id].isInitializer)
         => StrictEq(Trace[k].v,
                     interpreter.envs[interpreter.funs[Trace[k].id].closure].values["this"])
  /\ (last.name = "init" /\ last.interpreted) => LastOut = <<"7">>
  /\ (last.name = "initDirect" /\ last.interpreted) => LastOut = <<"true">>

\* C7: a property access on an instance yields the field of that name if
\* the instance has one; otherwise the method of that name found from the
\* instance's class upwards, bound to the instance; otherwise it fails with
\* Undefined property 'X'.
PropertyLookupOrder ==
  \A i \in DOMAIN Trace :
    Trace[i].e = "get" =>
      IF Trace[i].a = 1
      THEN Trace[i + 1].x = "ok" /\ StrictEq(Trace[i + 1].v, Trace[i].v)
      ELSE IF Trace[i].b # 0
      THEN /\ Trace[i + 1].x = "ok"
           /\ Trace[i + 1].v.t = "fn"
           /\ BoundTo(Trace[i + 1].v.v, Trace[i].b, Trace[i].id)
      ELSE Trace[i + 1].x = "Undefined property '" \o Trace[i].x \o "'."

\* The class that declares the method the bound function fn came from.
DeclaringClass(fn) ==
  CHOOSE c \in DOMAIN interpreter.classes :
    \E m \in DOMAIN interpreter.classes[c].methods :
      /\ interpreter.funs[interpreter.classes[c].methods[m]].declaration
           = interpreter.funs[fn].declaration
      /\ interpreter.funs[interpreter.classes[c].methods[m]].closure
           = interpreter.envs[interpreter.funs[fn].closure].enclosing

\* The first method named m on the way from class c up its superclasses, 0
\* if there is none.
RECURSIVE MethodFrom(_, _)
MethodFrom(c, m) ==
  IF c = 0 THEN 0
  ELSE IF m \in DOMAIN interpreter.classes[c].methods
       THEN interpreter.classes[c].methods[m]
       ELSE MethodFrom(interpreter.classes[c].superclass, m)

\* C8: `super.m` in a method looks m up from the superclass S of the class
\* that declares the method, whatever the class of the receiver, and yields
\* the method found from S upwards bound to the receiver, or fails with
\* Undefined property 'm'. when there is none.
SuperDispatch ==
  /\ \A i \in DOMAIN Trace :
       Trace[i].e = "super" =>
         LET fn == Trace[OpenCall(i)].id
             S == interpreter.classes[DeclaringClass(fn)].superclass
             method == MethodFrom(S, Trace[i].x)
         IN /\ Trace[i].b = S
            /\ StrictEq(interpreter.envs[interpreter.funs[fn].closure].values["this"],
                        InstRef(Trace[i].a))
            /\ Trace[i + 1].e = "superResult"
            /\ IF method = 0
               THEN Trace[i + 1].x = "Undefined property '" \o Trace[i].x \o "'."
               ELSE /\ Trace[i + 1].x = "ok"
                    /\ Trace[i + 1].v.t = "fn"
                    /\ BoundTo(Trace[i + 1].v.v, method, Trace[i].a)
  /\ (last.name = "super" /\ last.interpreted) => LastOut = <<"A", "B">>
  /\ (last.name = "superThis" /\ last.interpreted) => LastOut = <<"u1", "u2">>

\* A method inherited by a sub-subclass has used super on an instance of
\* that sub-subclass and found the method two classes above its own, and
\* another super access has found no method.
SuperDispatchWitness ==
  /\ \E i \in DOMAIN Trace :
       /\ Trace[i].e = "super" /\ Trace[i + 1].x = "ok"
       /\ interpreter.insts[Trace[i].a].klass # DeclaringClass(Trace[OpenCall(i)].id)
       /\ Trace[i].x \notin DOMAIN interpreter.classes[Trace[i].b].methods
  /\ \E i \in DOMAIN Trace :
       Trace[i].e = "superResult" /\ Trace[i].x = "Undefined property 'nope'."

\* C10: the assignment `u = 1` of the `assign` source, to a name that no
\* frame binds, fails with the message Undefined variable u. and leaves
\* every frame without a binding for u.
AssignUndefined ==
  (last.name = "assign" /\ last.interpreted) =>
    /\ LastOut = <<"2", "Undefined variable u.">>
    /\ \A e \in DOMAIN interpreter.envs : "u" \notin DOMAIN interpreter.envs[e].values

\* C9: the first interpreter version prints `!v` as true exactly for the
\* values nil and false.
EarlierTruthiness ==
  (/\ last.name = "expression" /\ last.expr.kind = "Unary"
   /\ last.expr.operator = "BANG" /\ last.expr.right.kind = "Literal")
    => LastOut = <<IF Falsy(last.expr.right.value) THEN "true" ELSE "false">>


\* --------------------------------- the interpreter of src/interpreter.ts
\* The statement interpreter with functions and without a resolver, classes
\* or return: variables are looked up by name from the current environment,
\* and a function's frame hangs under the globals.  Its state s has the
\* fields envs, funs, environment, out and steps of the later interpreter.
RECURSIVE Functions_dispatch(_, _, _)
RECURSIVE Functions_evaluateAll(_, _, _)
RECURSIVE Functions_executeStatements(_, _)
RECURSIVE Functions_interpretWhile(_, _)

Functions_evaluate(s, expr) == Functions_dispatch("evaluate", s, expr)
Functions_execute(s, statement) == Functions_dispatch("execute", s, statement)

Functions_isTruthy(value) == value.t # "nil" /\ ~(value.t = "bool" /\ value.v = FALSE)

\* `${value}`: a callable prints through its toString.
Functions_stringify(s, value) ==
  IF value.t = "nil" THEN "nil"
  ELSE CASE value.t = "num" -> ToString(value.v)
         [] value.t = "bool" -> IF value.v THEN "true" ELSE "false"
         [] value.t = "str" -> value.v
         [] value.t = "fn" -> "<fn " \o s.funs[value.v].declaration.name \o ">"
         [] value.t = "native" -> "<native fn>"

Functions_checkNumberOperand(s, operand) ==
  IF operand.t = "num" THEN Ok(s, operand)
  ELSE Throw(s, "Operand must be a number.")

Functions_checkNumberOperands(s, left, right) ==
  IF left.t = "num" /\ right.t = "num" THEN Ok(s, Nil)
  ELSE Throw(s, "Operands must be numbers.")

Functions_isLogicalBinary(binary) == binary.operator = "AND" \/ binary.operator = "OR"

\* statements.forEach((stmt) => this.execute(stmt))
Functions_executeStatements(s, statements) ==
  IF statements = <<>> THEN Ok(s, Nil)
  ELSE LET r == Functions_executeStatements(s, SubSeq(statements, 1, Len(statements) - 1)) IN
       IF r.sig # "ok" THEN r
       ELSE Functions_execute(r.s, statements[Len(statements)])

Functions_executeBlock(s, statements, environment) ==
  LET previousEnvironment == s.environment
      Finally(r) == WithState(r, [r.s EXCEPT !.environment = previousEnvironment])
  IN Finally(Functions_executeStatements([s EXCEPT !.environment = environment], statements))

\* LoxFunction.call of the version with no closure: the frame of a call is
\* new Environment(interpreter.globals), and the call returns null.
Functions_LoxFunction_call(s, fn, args) ==
  LET declaration == s.funs[fn].declaration
      s1 == AllocEnv(s, Globals)
      environment == Len(s1.envs)
      s2 == DefineParams(s1, environment, declaration.params, args, 1)
      Returned(r) == IF r.sig = "ok" THEN Ok(r.s, Nil) ELSE r
  IN Returned(Functions_executeBlock(s2, declaration.body, environment))

Functions_arity(s, callee) ==
  CASE callee.t = "fn" -> Len(s.funs[callee.v].declaration.params)
    [] callee.t = "native" -> 0

\* The `arguments` object of interpretCall(call): the one argument it is
\* called with.
Functions_arguments(call) == <<call>>

Functions_evaluateAll(s, args, i) ==
  IF i > Len(args) THEN Ok(s, <<>>)
  ELSE LET a == Functions_evaluate(s, args[i]) IN
       IF a.sig # "ok" THEN a
       ELSE LET rest == Functions_evaluateAll(a.s, args, i + 1) IN
            IF rest.sig # "ok" THEN rest
            ELSE [rest EXCEPT !.v = <<a.v>> \o @]

Functions_interpretCall(s, call) ==
  LET callee == Functions_evaluate(s, call.callee)
      args == Functions_evaluateAll(callee.s, call.args, 1)
  IN IF callee.sig # "ok" THEN callee
     ELSE IF args.sig # "ok" THEN args
     ELSE IF ~(callee.v.t \in {"fn", "native"})
     THEN Throw(args.s, "Can only call functions and classes.")
     ELSE IF Len(args.v) # Functions_arity(args.s, callee.v)
     THEN Throw(args.s, "Expected " \o ToString(Functions_arity(args.s, callee.v))
                        \o " arguments but got "
                        \o ToString(Len(Functions_arguments(call))) \o ".")
     ELSE IF callee.v.t = "fn"
     THEN Functions_LoxFunction_call(args.s, callee.v.v, args.v)
     ELSE Ok(args.s, Num(args.s.now))

Functions_interpretVariable(s, variable) ==
  Environment_get(s, s.environment, variable.name)

Functions_interpretLogicalBinary(s, expr) ==
  LET left == Functions_evaluate(s, expr.left) IN
  IF left.sig # "ok" THEN left
  ELSE IF expr.operator = "OR" /\ Functions_isTruthy(left.v) THEN left
  ELSE IF ~Functions_isTruthy(left.v) THEN left
  ELSE Functions_evaluate(left.s, expr.right)

Functions_interpretUnary(s, unary) ==
  LET right == Functions_evaluate(s, unary.right) IN
  IF right.sig # "ok" THEN right
  ELSE CASE unary.operator = "BANG" -> Ok(right.s, Bool(~Functions_isTruthy(right.v)))
         [] unary.operator = "MINUS" ->
              LET c == Functions_checkNumberOperand(right.s, right.v) IN
              IF c.sig # "ok" THEN c ELSE Ok(right.s, Num(0 - right.v.v))

Functions_interpretBinary(s, binary) ==
  IF Functions_isLogicalBinary(binary) THEN Functions_interpretLogicalBinary(s, binary)
  ELSE
  LET left == Functions_evaluate(s, binary.left)
      right == Functions_evaluate(left.s, binary.right)
      op == binary.operator
      c == Functions_checkNumberOperands(right.s, left.v, right.v)
      l == left.v.v
      r == right.v.v
  IN IF left.sig # "ok" THEN left
     ELSE IF right.sig # "ok" THEN right
     ELSE CASE op = "PLUS" ->
                 IF left.v.t = "num" /\ right.v.t = "num" THEN Ok(right.s, Num(l + r))
                 ELSE IF left.v.t = "str" /\ right.v.t = "str" THEN Ok(right.s, Str(l \o r))
                 ELSE Throw(right.s, "Operands must be two numbers or two strings.")
            [] op = "MINUS" -> IF c.sig # "ok" THEN c ELSE Ok(right.s, Num(l - r))
            [] op = "STAR" -> IF c.sig # "ok" THEN c ELSE Ok(right.s, Num(l * r))
            [] op = "SLASH" -> IF c.sig # "ok" THEN c
                               ELSE IF r # 0 /\ l % r = 0 THEN Ok(right.s, Num(l \div r))
                               ELSE OutOfFuel(right.s)
            [] op = "EQUAL_EQUAL" -> Ok(right.s, Bool(StrictEq(left.v, right.v)))
            [] op = "BANG_EQUAL" -> Ok(right.s, Bool(~StrictEq(left.v, right.v)))
            [] op = "GREATER" -> IF c.sig # "ok" THEN c ELSE Ok(right.s, Bool(l > r))
            [] op = "GREATER_EQUAL" -> IF c.sig # "ok" THEN c ELSE Ok(right.s, Bool(l >= r))
            [] op = "LESS" -> IF c.sig # "ok" THEN c ELSE Ok(right.s, Bool(l < r))
            [] op = "LESS_EQUAL" -> IF c.sig # "ok" THEN c ELSE Ok(right.s, Bool(l <= r))

Functions_interpretAssignment(s, expr) ==
  LET value == Functions_evaluate(s, expr.value) IN
  IF value.sig # "ok" THEN value
  ELSE Environment_assign(value.s, value.s.environment, expr.name, value.v)

Functions_interpretExpressionStatement(s, stmt) ==
  LET r == Functions_evaluate(s, stmt.expression) IN
  IF r.sig # "ok" THEN r ELSE Ok(r.s, Nil)

Functions_interpretPrintStatement(s, stmt) ==
  LET value == Functions_evaluate(s, stmt.expression) IN
  IF value.sig # "ok" THEN value
  ELSE Ok([value.s EXCEPT !.out = Append(@, Functions_stringify(value.s, value.v))], Nil)

Functions_interpretVariableDeclaration(s, stmt) ==
  IF stmt.hasInit
  THEN LET value == Functions_evaluate(s, stmt.initializer) IN
       IF value.sig # "ok" THEN value
       ELSE Ok(Environment_define(value.s, value.s.environment, stmt.name, value.v), Nil)
  ELSE Ok(Environment_define(s, s.environment, stmt.name, Nil), Nil)

\* new LoxFunction(stmt)
Functions_interpretFunctionDeclaration(s, stmt) ==
  LET s1 == [s EXCEPT !.funs = Append(@, [declaration |-> stmt])] IN
  Ok(Environment_define(s1, s1.environment, stmt.name, FnRef(Len(s1.funs))), Nil)

Functions_interpretIf(s, stmt) ==
  LET c == Functions_evaluate(s, stmt.condition) IN
  IF c.sig # "ok" THEN c
  ELSE IF Functions_isTruthy(c.v) THEN Functions_execute(c.s, stmt.body)
  ELSE IF stmt.hasElse THEN Functions_execute(c.s, stmt.elseBody)
  ELSE Ok(c.s, Nil)

Functions_interpretWhile(s, stmt) ==
  LET c == Functions_evaluate(s, stmt.condition) IN
  IF c.sig # "ok" THEN c
  ELSE IF ~Functions_isTruthy(c.v) THEN Ok(c.s, Nil)
  ELSE LET b == Functions_execute(c.s, stmt.body) IN
       IF b.sig # "ok" THEN b ELSE Functions_interpretWhile(b.s, stmt)

Functions_dispatch(method, s, node) ==
  CASE method = "evaluate" ->
         CASE node.kind = "Literal" -> Ok(s, node.value)
           [] node.kind = "Unary" -> Functions_interpretUnary(s, node)
           [] node.kind = "Binary" -> Functions_interpretBinary(s, node)
           [] node.kind = "Grouping" -> Functions_evaluate(s, node.expression)
           [] node.kind = "Variable" -> Functions_interpretVariable(s, node)
           [] node.kind = "Assignment" -> Functions_interpretAssignment(s, node)
           [] node.kind = "Call" -> Functions_interpretCall(s, node)
           [] OTHER -> Crash(s, "Shouldn't have reached this.")
    [] method = "execute" ->
         IF s.steps >= MaxSteps THEN OutOfFuel(s)
         ELSE LET s1 == [s EXCEPT !.steps = @ + 1] IN
         CASE node.kind = "Expression" -> Functions_interpretExpressionStatement(s1, node)
           [] node.kind = "Print" -> Functions_interpretPrintStatement(s1, node)
           [] node.kind = "Var" -> Functions_interpretVariableDeclaration(s1, node)
           [] node.kind = "Block" ->
                Functions_executeBlock(AllocEnv(s1, s1.environment), node.statements,
                                       Len(s1.envs) + 1)
           [] node.kind = "If" -> Functions_interpretIf(s1, node)
           [] node.kind = "While" -> Functions_interpretWhile(s1, node)
           [] node.kind = "Function" -> Functions_interpretFunctionDeclaration(s1, node)
           [] OTHER -> Crash(s1, "Shouldn't have reached this.")


\* The programs handed to this interpreter: a declaration, a call of the
\* declared name with 0 to MaxArgs literal arguments, and a print.
\*   fun f0() { print "f0"; }        f0(...);   print "after";
\*   fun f1(a) { print a; }          f1(...);   print "after";
\*   fun f2(a, b) { print a + b; }   f2(...);   print "after";
\*   var s = "s";                    s(...);    print "after";
\*   (nothing)                       clock(...); print "after";
MaxArgs == 3
FunctionsCallees ==
  <<[name |-> "f0", declaration |->
       <<FunctionStmt("f0", <<>>, <<PrintStmt(Literal(Str("f0")))>>)>>],
    [name |-> "f1", declaration |->
       <<FunctionStmt("f1", <<"a">>, <<PrintStmt(Variable(0, "a"))>>)>>],
    [name |-> "f2", declaration |->
       <<FunctionStmt("f2", <<"a", "b">>,
                      <<PrintStmt(Binary(Variable(0, "a"), "PLUS", Variable(0, "b")))>>)>>],
    [name |-> "s", declaration |-> <<VarStmt("s", Literal(Str("s")))>>],
    [name |-> "clock", declaration |-> <<>>]>>
FunctionsLiterals == <<Literal(Num(1)), Literal(Num(2)), Literal(Nil)>>
\* The k-th argument list of length n, counting in base Len(FunctionsLiterals).
RECURSIVE FunctionsArgs(_, _)
FunctionsArgs(n, k) ==
  IF n = 0 THEN <<>>
  ELSE <<FunctionsLiterals[(k % Len(FunctionsLiterals)) + 1]>>
         \o FunctionsArgs(n - 1, k \div Len(FunctionsLiterals))
RECURSIVE FunctionsArgLists(_)
FunctionsArgLists(n) ==
  IF n < 0 THEN <<>>
  ELSE FunctionsArgLists(n - 1)
         \o [k \in 1 .. Len(FunctionsLiterals) ^ n |-> FunctionsArgs(n, k - 1)]
FunctionsProgram(callee, args) ==
  [callee |-> callee.name, args |-> args,
   statements |-> callee.declaration
                    \o <<ExpressionStmt(Call(Variable(0, callee.name), args)),
                         PrintStmt(Literal(Str("after")))>>]

\* Interpreter.interpret(statements) of src/interpreter.ts on a new
\* interpreter: the statement loop, and Lox.runtimeError of the
\* RuntimeError it caught.
Functions_interpret(program) ==
  /\ pc = "main"
  /\ \E r \in {Functions_executeStatements(interpreter, program.statements)} :
       /\ r.sig \in {"ok", "RuntimeError"}
       /\ interpreter' = [r.s EXCEPT !.out =
            IF r.sig = "RuntimeError" THEN Append(@, r.msg) ELSE @]
       /\ hadRuntimeError' = (r.sig = "RuntimeError")
       /\ last' = [name |-> "functions", thrown |-> "ok", interpreted |-> TRUE,
                   out |-> 0, trace |-> 0, program |-> program]
  /\ pc' = "exit"
  /\ UNCHANGED <<hadError, diagnostics, exitCode, lines>>

FunctionsNext ==
  \E c \in DOMAIN FunctionsCallees, a \in DOMAIN FunctionsArgLists(MaxArgs) :
    Functions_interpret(FunctionsProgram(FunctionsCallees[c], FunctionsArgLists(MaxArgs)[a]))

SpecFunctions == Init /\ [][FunctionsNext]_vars

\* The arity of the callee of a program of SpecFunctions, -1 if it is no
\* callable.
FunctionsArity(program) ==
  CASE program.callee = "f0" -> 0
    [] program.callee = "f1" -> 1
    [] program.callee = "f2" -> 2
    [] program.callee = "clock" -> 0
    [] OTHER -> -1

\* C11: a call with M arguments of a callable of arity N, M # N, prints
\* `Expected N arguments but got M.` and nothing else: the body is not
\* entered and no later statement runs.
ArityCheck ==
  (/\ last.name = "functions"
   /\ FunctionsArity(last.program) >= 0
   /\ Len(last.program.args) # FunctionsArity(last.program))
    => LastOut = <<"Expected " \o ToString(FunctionsArity(last.program))
                     \o " arguments but got "
                     \o ToString(Len(last.program.args)) \o ".">>


\* C12: a class declaration whose superclass expression yields a value that
\* is no class does nothing after that evaluation: the cursor is the one the
\* declaration started with, and the next thing that happens, if any, is an
\* enclosing block or call being left by the runtime error, or its report.  The two
\* `badSuper` sources print only `Superclass must be a class.`, no frame
\* binds Sub or Sub2, and no frame was ever pushed under the block the
\* declaration of Sub stands in.
SuperclassMustBeClass ==
  /\ \A i \in DOMAIN Trace :
       (/\ Trace[i].e = "exec" /\ Trace[i].x = "Class"
        /\ i + 2 \in DOMAIN Trace
        /\ Trace[i + 1].e = "eval"
        /\ Trace[i + 2].e = "value" /\ Trace[i + 2].id = Trace[i + 1].id
        /\ Trace[i + 2].x = "ok" /\ Trace[i + 2].v.t # "class")
         => /\ Trace[i + 2].a = Trace[i].a
            /\ (i + 3 \in DOMAIN Trace /\ Trace[i + 3].e # "exec")
                 => \/ /\ Trace[i + 3].e \in {"blockExit", "callExit"}
                       /\ Trace[i + 3].x = "RuntimeError"
                    \/ /\ Trace[i + 3].e = "runtimeError"
                       /\ Trace[i + 3].x = "Superclass must be a class."
            /\ Trace[i].a # Globals
                 => \A e \in DOMAIN interpreter.envs :
                      interpreter.envs[e].enclosing # Trace[i].a
  /\ (last.name \in {"badSuperFn", "badSuperStr"} /\ last.interpreted)
       => /\ LastOut = <<"Superclass must be a class.">>
          /\ hadRuntimeError
          /\ interpreter.environment = Globals
  /\ \A e \in DOMAIN interpreter.envs :
       /\ "Sub" \notin DOMAIN interpreter.envs[e].values
       /\ "Sub2" \notin DOMAIN interpreter.envs[e].values

\* Both sources have run in one session: a function and a string have been
\* refused as superclasses, the first inside a block.
SuperclassMustBeClassWitness ==
  /\ \E i \in DOMAIN Trace :
       /\ Trace[i].e = "value" /\ Trace[i].id = 1801 /\ Trace[i].v.t = "fn"
       /\ Trace[i].a # Globals
  /\ \E i \in DOMAIN Trace :
       Trace[i].e = "value" /\ Trace[i].id = 1901 /\ Trace[i].v.t = "str"


\* C13: a run for which the scanner, the parser or the resolver reported an
\* error never reaches Interpreter.interpret: it prints nothing, executes
\* no statement, leaves hadRuntimeError as it was, and a file run exits
\* with status 65.  Scenario 6 reports `Can't return from top-level code.`.
StaticErrorsBlock ==
  /\ (last.mode \in {"main", "prompt"} /\ Len(diagnostics) > last.errors)
       => /\ ~last.interpreted
          /\ LastOut = <<>>
          /\ Len(Trace) = last.trace
          /\ hadRuntimeError = last.runtime
          /\ last.mode = "main" => (pc = "exit" /\ exitCode = 65)
  /\ last.name = "topReturn"
       => SubSeq(diagnostics, last.errors + 1, Len(diagnostics))
            = <<"Can't return from top-level code.">>

\* A file run of the `lateReturn` source, whose first statement is a print:
\* the resolver reported the return at top level, nothing was printed and
\* the process exited with status 65.
StaticErrorsBlockWitness ==
  /\ last.name = "lateReturn" /\ last.mode = "main"
  /\ diagnostics = <<"Can't return from top-level code.">>
  /\ interpreter.out = <<>>
  /\ pc = "exit" /\ exitCode = 65


\* An event that says a runtime error is on its way up.
Failed(ev) ==
  \/ ev.e \in {"blockExit", "callExit"} /\ ev.x = "RuntimeError"
  \/ ev.e \in {"value", "getResult", "superResult"}
       /\ ev.x \notin {"ok", "Return", "Error", "Fuel"}

\* C14: once a runtime error is on its way up, nothing happens in the run
\* but the enclosing evaluations, blocks and calls being left and the one
\* report of the error, which is the last thing of the run: it sets
\* hadRuntimeError and prints the message after what was printed before;
\* what earlier statements defined stays.  A file run with a runtime error
\* exits with status 70, one with no error of any kind with status 0.
RuntimeErrorHalts ==
  /\ \A i \in DOMAIN Trace :
       Failed(Trace[i])
         => /\ i < Len(Trace)
            /\ Failed(Trace[i + 1]) \/ Trace[i + 1].e = "runtimeError"
  /\ \A i \in (last.trace + 1) .. Len(Trace) :
       Trace[i].e = "runtimeError"
         => /\ i = Len(Trace)
            /\ hadRuntimeError
            /\ LastOut # <<>> /\ LastOut[Len(LastOut)] = Trace[i].x
            /\ \A k \in 1 .. (Len(LastOut) - 1) : LastOut[k] # Trace[i].x
            /\ last.mode = "main" => (pc = "exit" /\ exitCode = 70)
  /\ (/\ last.mode = "main" /\ last.thrown = "ok" /\ Len(diagnostics) = 0
      /\ \A i \in DOMAIN Trace : Trace[i].e # "runtimeError")
       => (pc = "exit" /\ exitCode = 0 /\ ~hadRuntimeError)
  /\ (last.name = "error" /\ last.interpreted)
       => LastOut = <<"before", "Operands must be two numbers or two strings.">>
  /\ (last.name = "assign" /\ last.interpreted)
       => /\ Len(LastOut) = 2 /\ LastOut[1] = "2"
          /\ StrictEq(interpreter.envs[Globals].values["g"], Num(2))

\* A file run of the `error` source: the error rose out of three blocks, a
\* call and a fourth block, was reported, and the run exited with status 70
\* without the statement after it.
RuntimeErrorHaltsWitness ==
  /\ last.name = "error" /\ last.mode = "main"
  /\ pc = "exit" /\ exitCode = 70
  /\ Len(Trace) > 5
  /\ Trace[Len(Trace)].e = "runtimeError"
  /\ Trace[Len(Trace) - 1].e = "blockExit" /\ Trace[Len(Trace) - 1].a = Globals
  /\ Trace[Len(Trace) - 2].e = "callExit" /\ Failed(Trace[Len(Trace) - 2])
  /\ Trace[Len(Trace) - 3].e = "blockExit"
  /\ Trace[Len(Trace) - 4].e = "blockExit"
  /\ Trace[Len(Trace) - 5].e = "blockExit" /\ Failed(Trace[Len(Trace) - 5])


\* C15: whenever the REPL waits for a line hadError is false, and a line
\* for which nothing was reported is interpreted, whatever earlier lines
\* did; a line never clears hadRuntimeError; and after a line the REPL
\* waits for the next one, with no exit status set.
ReplFlags ==
  /\ [](pc = "prompt" => ~hadError)
  /\ []((last.mode = "prompt" /\ Len(diagnostics) = last.errors) => last.interpreted)
  /\ [][pc = "prompt"
          => /\ pc' = "prompt"
             /\ hadRuntimeError => hadRuntimeError'
             /\ exitCode' = exitCode /\ exitCode = -1]_vars

\* The REPL waits for a third line: the first line had a static error, the
\* second one was interpreted and ended with a runtime error.
ReplFlagsWitness ==
  /\ pc = "prompt" /\ lines = 2
  /\ last.errors > 0 /\ Len(diagnostics) = last.errors
  /\ last.interpreted /\ ~last.runtime /\ hadRuntimeError
  /\ ~hadError


\* ---------------------------------------- properties of the resolver's pass
\* The history of the resolver's pass over the latest source, and the
\* messages that pass reported.
Resolved == last.resolved
Reported == SubSeq(diagnostics, last.errors + 1, Len(diagnostics))

\* Event i of the resolver's history is followed by the report of message.
ReportsNext(i, message) ==
  /\ i + 1 \in DOMAIN Resolved
  /\ Resolved[i + 1].e = "error" /\ Resolved[i + 1].x = message

\* The kind of the innermost function (enter = "function") or class (enter
\* = "class") whose resolution has begun and not ended before event i;
\* NONE when there is none.
Innermost(enter, i) ==
  LET open == {j \in 1 .. (i - 1) :
                 /\ Resolved[j].e = enter
                 /\ \A k \in (j + 1) .. (i - 1) :
                      ~(Resolved[k].e = enter \o "Exit" /\ Resolved[k].id = j)}
  IN IF open = {} THEN "NONE"
     ELSE Resolved[CHOOSE j \in open : \A k \in open : k <= j].x

\* C16: when a return statement is resolved currentFunction is the kind of
\* the innermost function around it; `Can't return from top-level code.` is
\* reported exactly for the returns with kind NONE and `Can't return a value
\* from an initializer.` exactly for those with a value and kind INITIALIZER.
\* The `returns` source (a function in init returns a value, init returns
\* bare) is accepted, `returnInit` and `lateReturn` are not.
ReturnChecks ==
  /\ \A i \in DOMAIN Resolved :
       Resolved[i].e = "return"
         => /\ Resolved[i].x = Innermost("function", i)
            /\ Resolved[i].x = "NONE"
                 <=> ReportsNext(i, "Can't return from top-level code.")
            /\ (Resolved[i].a = 1 /\ Resolved[i].x = "INITIALIZER")
                 <=> ReportsNext(i, "Can't return a value from an initializer.")
  /\ \A i \in DOMAIN Resolved :
       (/\ Resolved[i].e = "error"
        /\ Resolved[i].x \in {"Can't return from top-level code.",
                              "Can't return a value from an initializer."})
         => (i > 1 /\ Resolved[i - 1].e = "return")
  /\ last.name = "returns" => (Reported = <<>> /\ LastOut = <<"3">>)
  /\ last.name = "returnInit"
       => Reported = <<"Can't return a value from an initializer.",
                       "Can't return from top-level code.">>
  /\ last.name = "lateReturn" => Reported = <<"Can't return from top-level code.">>

\* The `returns` source was resolved: a return with a value inside a
\* function inside init, a bare return in init itself, and returns after
\* functions have ended.
ReturnChecksWitness ==
  /\ last.name = "returns"
  /\ \E i \in DOMAIN Resolved :
       /\ Resolved[i].e = "return" /\ Resolved[i].a = 1 /\ Resolved[i].x = "FUNCTION"
       /\ \E j \in 1 .. (i - 1) : Resolved[j].e = "function" /\ Resolved[j].x = "INITIALIZER"
       /\ Resolved[i + 1].e = "scopeExit"
       /\ Resolved[i + 2].e = "functionExit" /\ Resolved[i + 2].x = "INITIALIZER"
       /\ Resolved[i + 3].e = "return" /\ Resolved[i + 3].a = 0


\* C17: when `this` or `super` is resolved currentClass is the kind of the
\* innermost class around it, SUBCLASS exactly for a class with a
\* superclass; `this` is reported exactly with kind NONE, `super` as
\* outside of a class exactly with kind NONE and as in a class with no
\* superclass exactly with kind CLASS.  The `classTypes` source is accepted;
\* `thisOutside` and `superBad` get the reports of their uses outside.
ClassChecks ==
  /\ \A i \in DOMAIN Resolved :
       Resolved[i].e = "class" => (Resolved[i].x = "SUBCLASS" <=> Resolved[i].a = 1)
  /\ \A i \in DOMAIN Resolved :
       Resolved[i].e = "class" => (Resolved[i].x = "CLASS" <=> Resolved[i].a = 0)
  /\ \A i \in DOMAIN Resolved :
       Resolved[i].e = "this"
         => /\ Resolved[i].x = Innermost("class", i)
            /\ Resolved[i].x = "NONE"
                 <=> ReportsNext(i, "Can't use 'this' outside of a class.")
  /\ \A i \in DOMAIN Resolved :
       Resolved[i].e = "super"
         => /\ Resolved[i].x = Innermost("class", i)
            /\ Resolved[i].x = "NONE"
                 <=> ReportsNext(i, "Can't use 'super' outside of a class.")
            /\ Resolved[i].x = "CLASS"
                 <=> ReportsNext(i, "Can't use 'super' in a class with no superclass.")
  /\ \A i \in DOMAIN Resolved :
       (/\ Resolved[i].e = "error"
        /\ Resolved[i].x \in {"Can't use 'this' outside of a class.",
                              "Can't use 'super' outside of a class.",
                              "Can't use 'super' in a class with no superclass."})
         => (i > 1 /\ Resolved[i - 1].e \in {"this", "super"})
  /\ last.name = "classTypes" => Reported = <<>>
  /\ last.name = "thisOutside"
       => Reported = <<"Can't use 'this' outside of a class.",
                       "Can't use 'this' outside of a class.">>
  /\ last.name = "superBad"
       => Reported = <<"Can't use 'super' in a class with no superclass.",
                       "Can't use 'super' in a class with no superclass.",
                       "Can't use 'super' outside of a class.">>

\* The `classTypes` source was resolved: `this` in a class nested in a
\* method of a subclass saw CLASS, and the `super` after that nested class
\* saw SUBCLASS again.
ClassChecksWitness ==
  /\ last.name = "classTypes"
  /\ \E i \in DOMAIN Resolved :
       /\ Resolved[i].e = "this" /\ Resolved[i].id = 2103 /\ Resolved[i].x = "CLASS"
  /\ \E i \in DOMAIN Resolved :
       /\ Resolved[i].e = "super" /\ Resolved[i].id = 2104 /\ Resolved[i].x = "SUBCLASS"
       /\ \E k \in 1 .. (i - 1) : Resolved[k].e = "classExit" /\ Resolved[k].x = "SUBCLASS"


\* The number of scopes open at event i of the resolver's history, and the
\* event that opened the innermost of them (0 at global scope).
Depth(i) ==
  Cardinality({j \in 1 .. (i - 1) : Resolved[j].e = "scope"})
    - Cardinality({j \in 1 .. (i - 1) : Resolved[j].e = "scopeExit"})
ScopeStart(i) ==
  LET d == Depth(i)
      opened == {j \in 1 .. (i - 1) : Resolved[j].e = "scope" /\ Resolved[j].a = d}
  IN IF d = 0 \/ opened = {} THEN 0 ELSE CHOOSE j \in opened : \A k \in opened : k <= j

\* The declarations of the name of event i made earlier in the innermost
\* scope open at event i.
DeclaredHere(i) ==
  {k \in (ScopeStart(i) + 1) .. (i - 1) :
     /\ Resolved[k].e = "declare" /\ Resolved[k].x = Resolved[i].x
     /\ Depth(k) = Depth(i)}

\* C18: `Already a variable with this name in this scope.` is reported
\* exactly for a declaration in a local scope whose innermost scope already
\* holds the name; never at global scope, and never for a name that only an
\* enclosing scope holds.  The `dupLocal` source gets its four reports, the
\* `shadow` source none and it prints 2, 3, 4, 6.
DuplicateDeclaration ==
  /\ \A i \in DOMAIN Resolved :
       Resolved[i].e = "declare"
         => /\ Resolved[i].a = Depth(i)
            /\ ReportsNext(i, "Already a variable with this name in this scope.")
                 <=> (Depth(i) > 0 /\ DeclaredHere(i) # {})
  /\ \A i \in DOMAIN Resolved :
       (Resolved[i].e = "error"
          /\ Resolved[i].x = "Already a variable with this name in this scope.")
         => (i > 1 /\ Resolved[i - 1].e = "declare")
  /\ last.name = "dupLocal"
       => Reported = <<"Already a variable with this name in this scope.",
                       "Already a variable with this name in this scope.",
                       "Already a variable with this name in this scope.",
                       "Already a variable with this name in this scope.">>
  /\ last.name = "shadow" => (Reported = <<>> /\ LastOut = <<"2", "3", "4", "6">>)

\* The `shadow` source was resolved and run: a name was declared twice at
\* global scope, and again in a block inside a block that holds it.
DuplicateDeclarationWitness ==
  /\ last.name = "shadow" /\ last.interpreted /\ LastOut = <<"2", "3", "4", "6">>
  /\ \E i \in DOMAIN Resolved :
       /\ Resolved[i].e = "declare" /\ Resolved[i].x = "a7" /\ Resolved[i].a = 0
       /\ \E k \in 1 .. (i - 1) : Resolved[k].e = "declare" /\ Resolved[k].x = "a7"
  /\ \E i \in DOMAIN Resolved :
       /\ Resolved[i].e = "declare" /\ Resolved[i].x = "a7" /\ Resolved[i].a = 2
       /\ \E k \in 1 .. (i - 1) :
            Resolved[k].e = "declare" /\ Resolved[k].x = "a7" /\ Resolved[k].a = 1
       /\ ~ReportsNext(i, "Already a variable with this name in this scope.")

\* The name of event i is declared and not yet defined in the innermost
\* scope open at event i.
DeclaredOnlyHere(i) ==
  \E k \in DeclaredHere(i) :
    \A m \in (k + 1) .. (i - 1) :
      ~(Resolved[m].e = "define" /\ Resolved[m].x = Resolved[i].x /\ Depth(m) = Depth(i))

\* C19: `Can't read local variable in its own initializer.` is reported
\* exactly for a read of a name that the innermost local scope holds as
\* declared and not defined; never at global scope and never once the
\* declaration is resolved.  The `ownInit` source gets its two reports,
\* `readAfter` none and it prints 1, 2, 2, 2.
OwnInitializer ==
  /\ \A i \in DOMAIN Resolved :
       Resolved[i].e = "variable"
         => /\ Resolved[i].a = Depth(i)
            /\ Resolved[i].b = 1 <=> (Depth(i) > 0 /\ DeclaredOnlyHere(i))
            /\ ReportsNext(i, "Can't read local variable in its own initializer.")
                 <=> (Depth(i) > 0 /\ DeclaredOnlyHere(i))
  /\ \A i \in DOMAIN Resolved :
       (Resolved[i].e = "error"
          /\ Resolved[i].x = "Can't read local variable in its own initializer.")
         => (i > 1 /\ Resolved[i - 1].e = "variable")
  /\ last.name = "ownInit"
       => Reported = <<"Can't read local variable in its own initializer.",
                       "Can't read local variable in its own initializer.">>
  /\ last.name = "readAfter" => (Reported = <<>> /\ LastOut = <<"1", "2", "2", "2">>)

\* The `ownInit` source was resolved: the read of b8 in the initializer of
\* the inner b8 was reported though an enclosing scope defines b8.
OwnInitializerWitness ==
  /\ last.name = "ownInit" /\ ~last.interpreted
  /\ \E i \in DOMAIN Resolved :
       /\ Resolved[i].e = "variable" /\ Resolved[i].id = 2502 /\ Resolved[i].a = 2
       /\ Resolved[i].b = 1
       /\ ReportsNext(i, "Can't read local variable in its own initializer.")
       /\ \E k \in 1 .. (i - 1) :
            Resolved[k].e = "define" /\ Resolved[k].x = "b8" /\ Resolved[k].a = 1


\* ---------------------------------------------------------------- the parser
\* The recursive-descent parser of src/unnamed/part_001.  A Parser object is
\* the record p: its tokens, its cursor `current` (0-based, as in the code:
\* peek is tokens[current]), the messages it handed to Lox.error, and a
\* history of where declarations began, errors were raised and
\* synchronisations ran.  A method returns the record [p, sig, v]: the parser
\* after it, "ok" or "ParseError" (thrown), and the value returned.
Token(type, lexeme, literal) == [type |-> type, lexeme |-> lexeme, literal |-> literal]
NewParser(tokens) == [tokens |-> tokens, current |-> 0, errors |-> <<>>, history |-> <<>>]
Parsed(p, v) == [p |-> p, sig |-> "ok", v |-> v]
ThrowParseError(p) == [p |-> p, sig |-> "ParseError", v |-> 0]
\* null and undefined where the code has them for a missing node.
Null == [kind |-> "null"]
Remark(p, ev) == [p EXCEPT !.history = Append(@, ev)]
\* statements.push(statement) in the loop named: the parser after the
\* declaration that began at position `from`, with the push in its history.
Pushed(declaration, from, loop) ==
  Remark(declaration.p,
         Event("push", 0, from, declaration.p.current, Str(declaration.v.kind), loop))

Parser_peek(p) == p.tokens[p.current + 1]

Parser_previous(p) == p.tokens[p.current]

Parser_isAtEnd(p) == Parser_peek(p).type = "EOF"

Parser_check(p, type) ==
  IF Parser_isAtEnd(p) THEN FALSE ELSE Parser_peek(p).type = type

Parser_advance(p) ==
  IF ~Parser_isAtEnd(p) THEN [p EXCEPT !.current = @ + 1] ELSE p

\* match(...types): the parser after it and the boolean it returns.
Parser_match(p, types) ==
  IF \E type \in types : Parser_check(p, type)
  THEN Parsed(Parser_advance(p), TRUE)
  ELSE Parsed(p, FALSE)

\* error(token, message), token given by its position: Lox.error reports it.
Parser_error(p, token, message) ==
  Remark([p EXCEPT !.errors = Append(@, message)],
         Event("error", 0, p.current, token, Nil, message))

Parser_consume(p, type, errorMessage) ==
  IF Parser_check(p, type)
  THEN Parsed(Parser_advance(p), Parser_peek(p))
  ELSE ThrowParseError(Parser_error(p, p.current, errorMessage))

\* The keywords synchronize stops before.
SynchronizeKeywords == {"CLASS", "FUN", "VAR", "FOR", "IF", "WHILE", "PRINT", "RETURN"}

\* The loop of synchronize without its test of the previous token.
RECURSIVE Parser_synchronizeLoop_NoSemicolon(_)
Parser_synchronizeLoop_NoSemicolon(p) ==
  IF Parser_isAtEnd(p) THEN p
  ELSE IF Parser_peek(p).type \in SynchronizeKeywords THEN p
  ELSE Parser_synchronizeLoop_NoSemicolon(Parser_advance(p))

\* The while loop of synchronize.
RECURSIVE Parser_synchronizeLoop(_)
Parser_synchronizeLoop(p) ==
  IF Parser_isAtEnd(p) THEN p
  ELSE IF Parser_previous(p).type = "SEMICOLON" THEN p
  ELSE IF Parser_peek(p).type \in SynchronizeKeywords THEN p
  ELSE Parser_synchronizeLoop(Parser_advance(p))

\* synchronize that keeps the offending token when it is one of the
\* keywords a statement begins with.
Parser_synchronize_KeepKeyword(p) ==
  LET K(q) == Remark(q, Event("synchronize", 0, p.current, q.current, Nil, ""))
  IN K(Parser_synchronizeLoop(IF Parser_peek(p).type \in SynchronizeKeywords
                              THEN p ELSE Parser_advance(p)))

Parser_synchronize(p) ==
  LET K(q) == Remark(q, Event("synchronize", 0, p.current, q.current, Nil, ""))
  IN K(Parser_synchronizeLoop(Parser_advance(p)))

\* Every call of one grammar method by another goes through Parser_dispatch.
RECURSIVE Parser_dispatch(_, _, _)
this_declaration(p) == Parser_dispatch("declaration", p, "")
this_functionDeclaration(p, kind) == Parser_dispatch("functionDeclaration", p, kind)
this_varDeclaration(p) == Parser_dispatch("varDeclaration", p, "")
this_statement(p) == Parser_dispatch("statement", p, "")
this_block(p) == Parser_dispatch("block", p, "")
this_expressionStatement(p) == Parser_dispatch("expressionStatement", p, "")
this_expression(p) == Parser_dispatch("expression", p, "")
this_assignment(p) == Parser_dispatch("assignment", p, "")
this_logicOr(p) == Parser_dispatch("logicOr", p, "")
this_unary(p) == Parser_dispatch("unary", p, "")

Parser_primary(p) ==
  IF Parser_match(p, {"TRUE"}).v THEN Parsed(Parser_advance(p), Literal(Bool(TRUE)))
  ELSE IF Parser_match(p, {"FALSE"}).v THEN Parsed(Parser_advance(p), Literal(Bool(FALSE)))
  ELSE IF Parser_match(p, {"NIL"}).v THEN Parsed(Parser_advance(p), Literal(Nil))
  ELSE IF Parser_match(p, {"NUMBER", "STRING"}).v
  THEN Parsed(Parser_advance(p), Literal(Parser_peek(p).literal))
  ELSE IF Parser_match(p, {"IDENTIFIER"}).v
  THEN Parsed(Parser_advance(p), Variable(p.current + 1, Parser_peek(p).lexeme))
  ELSE IF Parser_match(p, {"LEFT_PAREN"}).v
  THEN LET K(expr) ==
             IF expr.sig # "ok" THEN expr
             ELSE LET K2(c) == IF c.sig # "ok" THEN c ELSE Parsed(c.p, Grouping(expr.v))
                  IN K2(Parser_consume(expr.p, "RIGHT_PAREN", "Expect ')' after expression."))
       IN K(this_expression(Parser_advance(p)))
  ELSE ThrowParseError(Parser_error(p, p.current, "Expect expression."))

\* The do-while of finishCall.
RECURSIVE Parser_finishCallLoop(_, _)
Parser_finishCallLoop(p, args) ==
  LET p1 == IF Len(args) >= 255
            THEN Parser_error(p, p.current, "Can't have more than 255 arguments.")
            ELSE p
      K(arg) ==
        IF arg.sig # "ok" THEN arg
        ELSE IF Parser_match(arg.p, {"COMMA"}).v
        THEN Parser_finishCallLoop(Parser_advance(arg.p), Append(args, arg.v))
        ELSE Parsed(arg.p, Append(args, arg.v))
  IN K(this_expression(p1))

Parser_finishCall(p, callee) ==
  LET K(args) ==
        IF args.sig # "ok" THEN args
        ELSE LET K2(paren) ==
                   IF paren.sig # "ok" THEN paren ELSE Parsed(paren.p, Call(callee, args.v))
             IN K2(Parser_consume(args.p, "RIGHT_PAREN", "Expect ')' after arguments."))
  IN K(IF ~Parser_check(p, "RIGHT_PAREN") THEN Parser_finishCallLoop(p, <<>>)
       ELSE Parsed(p, <<>>))

\* The while (true) of call.
RECURSIVE Parser_callLoop(_, _)
Parser_callLoop(p, expr) ==
  IF Parser_match(p, {"LEFT_PAREN"}).v
  THEN LET K(r) == IF r.sig # "ok" THEN r ELSE Parser_callLoop(r.p, r.v)
       IN K(Parser_finishCall(Parser_advance(p), expr))
  ELSE IF Parser_match(p, {"DOT"}).v
  THEN LET K(name) ==
             IF name.sig # "ok" THEN name
             ELSE Parser_callLoop(name.p, Get(expr, name.v.lexeme))
       IN K(Parser_consume(Parser_advance(p), "IDENTIFIER", "Expect property name after '.'."))
  ELSE Parsed(p, expr)

Parser_call(p) ==
  LET K(expr) == IF expr.sig # "ok" THEN expr ELSE Parser_callLoop(expr.p, expr.v)
  IN K(Parser_primary(p))

Parser_unary(p) ==
  IF Parser_match(p, {"BANG", "MINUS"}).v
  THEN LET K(right) ==
             IF right.sig # "ok" THEN right
             ELSE Parsed(right.p, Unary(Parser_peek(p).type, right.v))
       IN K(this_unary(Parser_advance(p)))
  ELSE Parser_call(p)

\* The while loop of parseLeftAssociativeBinary; operandFn is the name of
\* the method the closure calls.
RECURSIVE Parser_binaryLoop(_, _, _, _)
Parser_binaryLoop(p, expr, operandFn, validOperators) ==
  IF Parser_match(p, validOperators).v
  THEN LET K(right) ==
             IF right.sig # "ok" THEN right
             ELSE Parser_binaryLoop(right.p, Binary(expr, Parser_peek(p).type, right.v),
                                    operandFn, validOperators)
       IN K(Parser_dispatch(operandFn, Parser_advance(p), ""))
  ELSE Parsed(p, expr)

Parser_parseLeftAssociativeBinary(p, operandFn, validOperators) ==
  LET K(expr) ==
        IF expr.sig # "ok" THEN expr
        ELSE Parser_binaryLoop(expr.p, expr.v, operandFn, validOperators)
  IN K(Parser_dispatch(operandFn, p, ""))

Parser_factor(p) == Parser_parseLeftAssociativeBinary(p, "unary", {"STAR", "SLASH"})

Parser_term(p) == Parser_parseLeftAssociativeBinary(p, "factor", {"PLUS", "MINUS"})

Parser_comparison(p) ==
  Parser_parseLeftAssociativeBinary(p, "term",
    {"GREATER", "GREATER_EQUAL", "LESS", "LESS_EQUAL"})

Parser_equality(p) ==
  Parser_parseLeftAssociativeBinary(p, "comparison", {"EQUAL_EQUAL", "BANG_EQUAL"})

Parser_logicAnd(p) == Parser_parseLeftAssociativeBinary(p, "equality", {"AND"})

Parser_logicOr(p) == Parser_parseLeftAssociativeBinary(p, "logicAnd", {"OR"})

\* The assignment just parsed, in the history: the position of its `=`,
\* the cursor after its value, the kind of its target and of its result.
Assigned(p, equals, target, result) ==
  Remark(p, Event("assignment", 0, equals, p.current, Str(target), result))

\* assignment that throws for an invalid target.
Parser_assignment_Throws(p) ==
  LET K(expr) ==
        IF expr.sig # "ok" THEN expr
        ELSE IF Parser_match(expr.p, {"EQUAL"}).v
        THEN LET equals == expr.p.current
                 K2(value) ==
                   IF value.sig # "ok" THEN value
                   ELSE IF expr.v.kind = "Variable"
                   THEN Parsed(Assigned(value.p, equals, "Variable", "Assignment"),
                               Assignment(equals + 1, expr.v.name, value.v))
                   ELSE IF expr.v.kind = "Get"
                   THEN Parsed(Assigned(value.p, equals, "Get", "Set"),
                               Set(expr.v.object, expr.v.name, value.v))
                   ELSE ThrowParseError(
                          Parser_error(value.p, equals, "Invalid assignment target."))
             IN K2(this_assignment(Parser_advance(expr.p)))
        ELSE Parsed(expr.p, expr.v)
  IN K(this_logicOr(p))

\* An Assignment node takes the position of its `=` as identity, a Variable
\* node (in primary) that of its identifier.
Parser_assignment(p) ==
  LET K(expr) ==
        IF expr.sig # "ok" THEN expr
        ELSE IF Parser_match(expr.p, {"EQUAL"}).v
        THEN LET equals == expr.p.current
                 K2(value) ==
                   IF value.sig # "ok" THEN value
                   ELSE IF expr.v.kind = "Variable"
                   THEN Parsed(Assigned(value.p, equals, "Variable", "Assignment"),
                               Assignment(equals + 1, expr.v.name, value.v))
                   ELSE IF expr.v.kind = "Get"
                   THEN Parsed(Assigned(value.p, equals, "Get", "Set"),
                               Set(expr.v.object, expr.v.name, value.v))
                   ELSE Parsed(Assigned(
                                 Parser_error(value.p, equals, "Invalid assignment target."),
                                 equals, expr.v.kind, expr.v.kind),
                               expr.v)
             IN K2(this_assignment(Parser_advance(expr.p)))
        ELSE Parsed(expr.p, expr.v)
  IN K(this_logicOr(p))

Parser_expression(p) == this_assignment(p)

Parser_printStatement(p) ==
  LET K(value) ==
        IF value.sig # "ok" THEN value
        ELSE LET K2(c) == IF c.sig # "ok" THEN c ELSE Parsed(c.p, PrintStmt(value.v))
             IN K2(Parser_consume(value.p, "SEMICOLON", "Expect ';' after value."))
  IN K(this_expression(p))

Parser_expressionStatement(p) ==
  LET K(value) ==
        IF value.sig # "ok" THEN value
        ELSE LET K2(c) == IF c.sig # "ok" THEN c ELSE Parsed(c.p, ExpressionStmt(value.v))
             IN K2(Parser_consume(value.p, "SEMICOLON", "Expect ';' after value."))
  IN K(this_expression(p))

\* The while loop of block; declaration never throws.
RECURSIVE Parser_blockLoop(_, _)
Parser_blockLoop(p, statements) ==
  IF ~Parser_check(p, "RIGHT_BRACE") /\ ~Parser_isAtEnd(p)
  THEN LET K(declaration) ==
             IF declaration.v.kind # "null"
             THEN Parser_blockLoop(Pushed(declaration, p.current, "block"),
                                   Append(statements, declaration.v))
             ELSE Parser_blockLoop(declaration.p, statements)
       IN K(this_declaration(p))
  ELSE Parsed(Remark(p, Event("loopExit", 0, p.current, 0, Nil, "block")), statements)

Parser_block(p) ==
  LET K(statements) ==
        LET K2(c) == IF c.sig # "ok" THEN c ELSE Parsed(c.p, statements.v)
        IN K2(Parser_consume(statements.p, "RIGHT_BRACE", "Expect '}' after block."))
  IN K(Parser_blockLoop(p, <<>>))

Parser_ifStatement(p) ==
  LET K(c1) ==
        IF c1.sig # "ok" THEN c1
        ELSE LET K2(condition) ==
               IF condition.sig # "ok" THEN condition
               ELSE LET K3(c2) ==
                      IF c2.sig # "ok" THEN c2
                      ELSE LET K4(body) ==
                             IF body.sig # "ok" THEN body
                             ELSE IF Parser_match(body.p, {"ELSE"}).v
                             THEN LET K5(elseBody) ==
                                        IF elseBody.sig # "ok" THEN elseBody
                                        ELSE Parsed(elseBody.p,
                                               IfElseStmt(condition.v, body.v, elseBody.v))
                                  IN K5(this_statement(Parser_advance(body.p)))
                             ELSE Parsed(body.p, IfStmt(condition.v, body.v))
                           IN K4(this_statement(c2.p))
                    IN K3(Parser_consume(condition.p, "RIGHT_PAREN",
                                         "Expect ')' after if condition."))
             IN K2(this_expression(c1.p))
  IN K(Parser_consume(p, "LEFT_PAREN", "Expect '(' after if."))

Parser_whileStatement(p) ==
  LET K(c1) ==
        IF c1.sig # "ok" THEN c1
        ELSE LET K2(condition) ==
               IF condition.sig # "ok" THEN condition
               ELSE LET K3(c2) ==
                      IF c2.sig # "ok" THEN c2
                      ELSE LET K4(body) ==
                             IF body.sig # "ok" THEN body
                             ELSE Parsed(body.p, WhileStmt(condition.v, body.v))
                           IN K4(this_statement(c2.p))
                    IN K3(Parser_consume(condition.p, "RIGHT_PAREN",
                                         "Expect ')' after while condition."))
             IN K2(this_expression(c1.p))
  IN K(Parser_consume(p, "LEFT_PAREN", "Expect '(' after while."))

\* forStatement that puts the increment before the body.
Parser_forStatement_IncrementFirst(p) ==
  LET K(c1) ==
        IF c1.sig # "ok" THEN c1
        ELSE LET K2(initializer) ==
               IF initializer.sig # "ok" THEN initializer
               ELSE LET K3(condition) ==
                      IF condition.sig # "ok" THEN condition
                      ELSE LET K4(c2) ==
                             IF c2.sig # "ok" THEN c2
                             ELSE LET K5(increment) ==
                                    IF increment.sig # "ok" THEN increment
                                    ELSE LET K6(c3) ==
                                           IF c3.sig # "ok" THEN c3
                                           ELSE LET K7(body) ==
   IF body.sig # "ok" THEN body
   ELSE LET bodyBlockStatements ==
              IF increment.v.kind # "null"
              THEN <<ExpressionStmt(increment.v), body.v>> ELSE <<body.v>>
            loop == WhileStmt(IF condition.v.kind # "null" THEN condition.v
                              ELSE Literal(Bool(TRUE)),
                              BlockStmt(bodyBlockStatements))
        IN Parsed(body.p,
                  BlockStmt(IF initializer.v.kind # "null"
                            THEN <<initializer.v, loop>> ELSE <<loop>>))
                                                IN K7(this_statement(c3.p))
                                         IN K6(Parser_consume(increment.p, "RIGHT_PAREN",
                                                 "Expected ')' after increment"))
                                  IN K5(IF ~Parser_check(c2.p, "RIGHT_PAREN")
                                        THEN this_expression(c2.p) ELSE Parsed(c2.p, Null))
                           IN K4(Parser_consume(condition.p, "SEMICOLON",
                                                "Expected ';' after loop condition"))
                    IN K3(IF ~Parser_check(initializer.p, "SEMICOLON")
                          THEN this_expression(initializer.p)
                          ELSE Parsed(initializer.p, Null))
             IN K2(IF Parser_match(c1.p, {"SEMICOLON"}).v
                   THEN Parsed(Parser_advance(c1.p), Null)
                   ELSE IF Parser_match(c1.p, {"VAR"}).v
                   THEN this_varDeclaration(Parser_advance(c1.p))
                   ELSE this_expressionStatement(c1.p))
  IN K(Parser_consume(p, "LEFT_PAREN", "Expect '(' after for."))

\* forStatement builds { initializer; while (condition || true) { body;
\* increment; } }.
Parser_forStatement(p) ==
  LET K(c1) ==
        IF c1.sig # "ok" THEN c1
        ELSE LET K2(initializer) ==
               IF initializer.sig # "ok" THEN initializer
               ELSE LET K3(condition) ==
                      IF condition.sig # "ok" THEN condition
                      ELSE LET K4(c2) ==
                             IF c2.sig # "ok" THEN c2
                             ELSE LET K5(increment) ==
                                    IF increment.sig # "ok" THEN increment
                                    ELSE LET K6(c3) ==
                                           IF c3.sig # "ok" THEN c3
                                           ELSE LET K7(body) ==
   IF body.sig # "ok" THEN body
   ELSE LET bodyBlockStatements ==
              IF increment.v.kind # "null"
              THEN <<body.v, ExpressionStmt(increment.v)>> ELSE <<body.v>>
            loop == WhileStmt(IF condition.v.kind # "null" THEN condition.v
                              ELSE Literal(Bool(TRUE)),
                              BlockStmt(bodyBlockStatements))
        IN Parsed(body.p,
                  BlockStmt(IF initializer.v.kind # "null"
                            THEN <<initializer.v, loop>> ELSE <<loop>>))
                                                IN K7(this_statement(c3.p))
                                         IN K6(Parser_consume(increment.p, "RIGHT_PAREN",
                                                 "Expected ')' after increment"))
                                  IN K5(IF ~Parser_check(c2.p, "RIGHT_PAREN")
                                        THEN this_expression(c2.p) ELSE Parsed(c2.p, Null))
                           IN K4(Parser_consume(condition.p, "SEMICOLON",
                                                "Expected ';' after loop condition"))
                    IN K3(IF ~Parser_check(initializer.p, "SEMICOLON")
                          THEN this_expression(initializer.p)
                          ELSE Parsed(initializer.p, Null))
             IN K2(IF Parser_match(c1.p, {"SEMICOLON"}).v
                   THEN Parsed(Parser_advance(c1.p), Null)
                   ELSE IF Parser_match(c1.p, {"VAR"}).v
                   THEN this_varDeclaration(Parser_advance(c1.p))
                   ELSE this_expressionStatement(c1.p))
  IN K(Parser_consume(p, "LEFT_PAREN", "Expect '(' after for."))

Parser_returnStatement(p) ==
  LET K(value) ==
        IF value.sig # "ok" THEN value
        ELSE LET K2(c) ==
                   IF c.sig # "ok" THEN c
                   ELSE Parsed(c.p, IF value.v.kind # "null" THEN ReturnStmt(value.v)
                                    ELSE ReturnNothing)
             IN K2(Parser_consume(value.p, "SEMICOLON", "Expect ';' after return value."))
  IN K(IF ~Parser_check(p, "SEMICOLON") THEN this_expression(p) ELSE Parsed(p, Null))

Parser_statement(p) ==
  IF Parser_match(p, {"PRINT"}).v THEN Parser_printStatement(Parser_advance(p))
  ELSE IF Parser_match(p, {"LEFT_BRACE"}).v
  THEN LET K(b) == IF b.sig # "ok" THEN b ELSE Parsed(b.p, BlockStmt(b.v))
       IN K(this_block(Parser_advance(p)))
  ELSE IF Parser_match(p, {"IF"}).v THEN Parser_ifStatement(Parser_advance(p))
  ELSE IF Parser_match(p, {"WHILE"}).v THEN Parser_whileStatement(Parser_advance(p))
  ELSE IF Parser_match(p, {"FOR"}).v THEN Parser_forStatement(Parser_advance(p))
  ELSE IF Parser_match(p, {"RETURN"}).v THEN Parser_returnStatement(Parser_advance(p))
  ELSE this_expressionStatement(p)

Parser_varDeclaration(p) ==
  LET K(identifier) ==
        IF identifier.sig # "ok" THEN identifier
        ELSE LET K2(expression) ==
               IF expression.sig # "ok" THEN expression
               ELSE LET K3(c) ==
                      IF c.sig # "ok" THEN c
                      ELSE Parsed(c.p, IF expression.v.kind # "null"
                                       THEN VarStmt(identifier.v.lexeme, expression.v)
                                       ELSE VarNoInit(identifier.v.lexeme))
                    IN K3(Parser_consume(expression.p, "SEMICOLON",
                                         "Expect ';' after value."))
             IN K2(IF Parser_match(identifier.p, {"EQUAL"}).v
                   THEN this_expression(Parser_advance(identifier.p))
                   ELSE Parsed(identifier.p, Null))
  IN K(Parser_consume(p, "IDENTIFIER", "Expect variable name."))

\* The do-while of functionDeclaration.
RECURSIVE Parser_parametersLoop(_, _)
Parser_parametersLoop(p, params) ==
  LET p1 == IF Len(params) >= 255
            THEN Parser_error(p, p.current, "Can't have more than 255 parameters.")
            ELSE p
      K(param) ==
        IF param.sig # "ok" THEN param
        ELSE IF Parser_match(param.p, {"COMMA"}).v
        THEN Parser_parametersLoop(Parser_advance(param.p), Append(params, param.v.lexeme))
        ELSE Parsed(param.p, Append(params, param.v.lexeme))
  IN K(Parser_consume(p1, "IDENTIFIER", "Expect parameter name"))

Parser_functionDeclaration(p, kind) ==
  LET K(name) ==
        IF name.sig # "ok" THEN name
        ELSE LET K2(c1) ==
               IF c1.sig # "ok" THEN c1
               ELSE LET K3(params) ==
                      IF params.sig # "ok" THEN params
                      ELSE LET K4(c2) ==
                             IF c2.sig # "ok" THEN c2
                             ELSE LET K5(c3) ==
                                    IF c3.sig # "ok" THEN c3
                                    ELSE LET K6(body) ==
                                           IF body.sig # "ok" THEN body
                                           ELSE Parsed(body.p,
                                                  FunctionStmt(name.v.lexeme, params.v, body.v))
                                         IN K6(this_block(c3.p))
                                  IN K5(Parser_consume(c2.p, "LEFT_BRACE",
                                          "Expect '{' before " \o kind \o " body."))
                           IN K4(Parser_consume(params.p, "RIGHT_PAREN",
                                                "Expect ')' after parameters."))
                    IN K3(IF ~Parser_check(c1.p, "RIGHT_PAREN")
                          THEN Parser_parametersLoop(c1.p, <<>>) ELSE Parsed(c1.p, <<>>))
             IN K2(Parser_consume(name.p, "LEFT_PAREN",
                                  "Expect '(' after " \o kind \o " name."))
  IN K(Parser_consume(p, "IDENTIFIER", "Expect " \o kind \o " name."))

\* The while loop of classDeclaration.
RECURSIVE Parser_methodsLoop(_, _)
Parser_methodsLoop(p, methods) ==
  IF ~Parser_check(p, "RIGHT_BRACE") /\ ~Parser_isAtEnd(p)
  THEN LET K(method) ==
             IF method.sig # "ok" THEN method
             ELSE Parser_methodsLoop(
                    Remark(method.p,
                           Event("method", 0, p.current, method.p.current, Nil, "class")),
                    Append(methods, method.v))
       IN K(this_functionDeclaration(p, "method"))
  ELSE Parsed(p, methods)

Parser_classDeclaration(p) ==
  LET K(name) ==
        IF name.sig # "ok" THEN name
        ELSE LET K2(c1) ==
               IF c1.sig # "ok" THEN c1
               ELSE LET K3(methods) ==
                      IF methods.sig # "ok" THEN methods
                      ELSE LET K4(c2) ==
                             IF c2.sig # "ok" THEN c2
                             ELSE Parsed(c2.p, ClassStmt(name.v.lexeme, methods.v))
                           IN K4(Parser_consume(methods.p, "RIGHT_BRACE",
                                                "Expect '}' fter class body."))
                    IN K3(Parser_methodsLoop(c1.p, <<>>))
             IN K2(Parser_consume(name.p, "LEFT_BRACE", "Expect '{' before class body."))
  IN K(Parser_consume(p, "IDENTIFIER", "Expect class name."))

\* declaration with its catch of ParseError.
Parser_declaration(p) ==
  LET p0 == Remark(p, Event("declaration", 0, p.current, 0, Nil, ""))
      K(r) == IF r.sig = "ParseError" THEN Parsed(Parser_synchronize(r.p), Null) ELSE r
  IN K(IF Parser_match(p0, {"FUN"}).v
       THEN this_functionDeclaration(Parser_advance(p0), "function")
       ELSE IF Parser_match(p0, {"VAR"}).v THEN this_varDeclaration(Parser_advance(p0))
       ELSE IF Parser_match(p0, {"CLASS"}).v THEN Parser_classDeclaration(Parser_advance(p0))
       ELSE this_statement(p0))

Parser_dispatch(rule, p, arg) ==
  CASE rule = "declaration" -> Parser_declaration(p)
    [] rule = "functionDeclaration" -> Parser_functionDeclaration(p, arg)
    [] rule = "varDeclaration" -> Parser_varDeclaration(p)
    [] rule = "statement" -> Parser_statement(p)
    [] rule = "block" -> Parser_block(p)
    [] rule = "expressionStatement" -> Parser_expressionStatement(p)
    [] rule = "expression" -> Parser_expression(p)
    [] rule = "assignment" -> Parser_assignment(p)
    [] rule = "logicOr" -> Parser_logicOr(p)
    [] rule = "logicAnd" -> Parser_logicAnd(p)
    [] rule = "equality" -> Parser_equality(p)
    [] rule = "comparison" -> Parser_comparison(p)
    [] rule = "term" -> Parser_term(p)
    [] rule = "factor" -> Parser_factor(p)
    [] rule = "unary" -> Parser_unary(p)

\* The while loop of parse that ends at the first declaration that failed.
RECURSIVE Parser_parseLoop_StopAtError(_, _)
Parser_parseLoop_StopAtError(p, statements) ==
  IF ~Parser_isAtEnd(p)
  THEN LET K(statement) ==
             IF statement.v.kind # "null"
             THEN Parser_parseLoop_StopAtError(Pushed(statement, p.current, "parse"),
                                               Append(statements, statement.v))
             ELSE Parsed(Remark(statement.p,
                                Event("loopExit", 0, statement.p.current, 0, Nil, "parse")),
                         statements)
       IN K(this_declaration(p))
  ELSE Parsed(Remark(p, Event("loopExit", 0, p.current, 0, Nil, "parse")), statements)

\* The while loop of parse.
RECURSIVE Parser_parseLoop(_, _)
Parser_parseLoop(p, statements) ==
  IF ~Parser_isAtEnd(p)
  THEN LET K(statement) ==
             IF statement.v.kind # "null"
             THEN Parser_parseLoop(Pushed(statement, p.current, "parse"),
                                   Append(statements, statement.v))
             ELSE Parser_parseLoop(statement.p, statements)
       IN K(this_declaration(p))
  ELSE Parsed(Remark(p, Event("loopExit", 0, p.current, 0, Nil, "parse")), statements)

Parser_parse(p) == Parser_parseLoop(p, <<>>)

\* ------------------------------------------------- token streams to parse
\* Longest stream of the alphabet (EOF not counted).
MaxTokens == 4

Tok(type) == Token(type, "", Nil)
Id(name) == Token("IDENTIFIER", name, Nil)
NumTok(n) == Token("NUMBER", "", Num(n))
EOF == Tok("EOF")

TokenAlphabet ==
  <<Tok("PRINT"), Tok("VAR"), Id("x"), Tok("SEMICOLON"), Tok("EQUAL"),
    Tok("LEFT_BRACE"), Tok("RIGHT_BRACE")>>

\* The stream that the choice f of letters spells, with its EOF.
Stream(f, n) ==
  [i \in 1 .. (n + 1) |-> IF i <= n THEN TokenAlphabet[f[i]] ELSE EOF]

\* Longer streams, as the scanner gives them for the text beside them.
ParserPrograms ==
  << \* print var x = 1; print x;
     <<Tok("PRINT"), Tok("VAR"), Id("x"), Tok("EQUAL"), NumTok(1), Tok("SEMICOLON"),
       Tok("PRINT"), Id("x"), Tok("SEMICOLON"), EOF>>,
     \* fun f(a, b) { return a + b; } print f(1, 2);
     <<Tok("FUN"), Id("f"), Tok("LEFT_PAREN"), Id("a"), Tok("COMMA"), Id("b"),
       Tok("RIGHT_PAREN"), Tok("LEFT_BRACE"), Tok("RETURN"), Id("a"), Tok("PLUS"), Id("b"),
       Tok("SEMICOLON"), Tok("RIGHT_BRACE"), Tok("PRINT"), Id("f"), Tok("LEFT_PAREN"),
       NumTok(1), Tok("COMMA"), NumTok(2), Tok("RIGHT_PAREN"), Tok("SEMICOLON"), EOF>>,
     \* class A { m() { } } for (var i = 0; i < 2; i = i + 1) print i;
     <<Tok("CLASS"), Id("A"), Tok("LEFT_BRACE"), Id("m"), Tok("LEFT_PAREN"),
       Tok("RIGHT_PAREN"), Tok("LEFT_BRACE"), Tok("RIGHT_BRACE"), Tok("RIGHT_BRACE"),
       Tok("FOR"), Tok("LEFT_PAREN"), Tok("VAR"), Id("i"), Tok("EQUAL"), NumTok(0),
       Tok("SEMICOLON"), Id("i"), Tok("LESS"), NumTok(2), Tok("SEMICOLON"), Id("i"),
       Tok("EQUAL"), Id("i"), Tok("PLUS"), NumTok(1), Tok("RIGHT_PAREN"), Tok("PRINT"),
       Id("i"), Tok("SEMICOLON"), EOF>>,
     \* { print ; x = 1; } if (x) print true; else print nil;
     <<Tok("LEFT_BRACE"), Tok("PRINT"), Tok("SEMICOLON"), Id("x"), Tok("EQUAL"), NumTok(1),
       Tok("SEMICOLON"), Tok("RIGHT_BRACE"), Tok("IF"), Tok("LEFT_PAREN"), Id("x"),
       Tok("RIGHT_PAREN"), Tok("PRINT"), Tok("TRUE"), Tok("SEMICOLON"), Tok("ELSE"),
       Tok("PRINT"), Tok("NIL"), Tok("SEMICOLON"), EOF>>,
     \* while (!x or false) x.y = -1 * (2); 1 = 2; fun (
     <<Tok("WHILE"), Tok("LEFT_PAREN"), Tok("BANG"), Id("x"), Tok("OR"), Tok("FALSE"),
       Tok("RIGHT_PAREN"), Id("x"), Tok("DOT"), Id("y"), Tok("EQUAL"), Tok("MINUS"),
       NumTok(1), Tok("STAR"), Tok("LEFT_PAREN"), NumTok(2), Tok("RIGHT_PAREN"),
       Tok("SEMICOLON"), NumTok(1), Tok("EQUAL"), NumTok(2), Tok("SEMICOLON"),
       Tok("FUN"), Tok("LEFT_PAREN"), EOF>>,
     \* print ; var = 1; print x; x = ; var y; { 1 2; print y; ); }
     <<Tok("PRINT"), Tok("SEMICOLON"), Tok("VAR"), Tok("EQUAL"), NumTok(1),
       Tok("SEMICOLON"), Tok("PRINT"), Id("x"), Tok("SEMICOLON"), Id("x"), Tok("EQUAL"),
       Tok("SEMICOLON"), Tok("VAR"), Id("y"), Tok("SEMICOLON"), Tok("LEFT_BRACE"),
       NumTok(1), NumTok(2), Tok("SEMICOLON"), Tok("PRINT"), Id("y"), Tok("SEMICOLON"),
       Tok("RIGHT_PAREN"), Tok("SEMICOLON"), Tok("RIGHT_BRACE"), EOF>>,
     \* (x) = 1; x.y = 2; x = y = 3; 1 = 2 = 3; print f() = 4;
     <<Tok("LEFT_PAREN"), Id("x"), Tok("RIGHT_PAREN"), Tok("EQUAL"), NumTok(1),
       Tok("SEMICOLON"), Id("x"), Tok("DOT"), Id("y"), Tok("EQUAL"), NumTok(2),
       Tok("SEMICOLON"), Id("x"), Tok("EQUAL"), Id("y"), Tok("EQUAL"), NumTok(3),
       Tok("SEMICOLON"), NumTok(1), Tok("EQUAL"), NumTok(2), Tok("EQUAL"), NumTok(3),
       Tok("SEMICOLON"), Tok("PRINT"), Id("f"), Tok("LEFT_PAREN"), Tok("RIGHT_PAREN"),
       Tok("EQUAL"), NumTok(4), Tok("SEMICOLON"), EOF>>,
     \* class B < A { say() { super.say(); print "B"; } }
     <<Tok("CLASS"), Id("B"), Tok("LESS"), Id("A"), Tok("LEFT_BRACE"), Id("say"),
       Tok("LEFT_PAREN"), Tok("RIGHT_PAREN"), Tok("LEFT_BRACE"), Tok("SUPER"), Tok("DOT"),
       Id("say"), Tok("LEFT_PAREN"), Tok("RIGHT_PAREN"), Tok("SEMICOLON"), Tok("PRINT"),
       Token("STRING", "", Str("B")), Tok("SEMICOLON"), Tok("RIGHT_BRACE"),
       Tok("RIGHT_BRACE"), EOF>> >>

\* new Parser(tokens).parse(), as Lox.run calls it; the messages go to the
\* diagnostics and set hadError.
parse(tokens) ==
  /\ pc = "main"
  /\ \E r \in {Parser_parse(NewParser(tokens))} :
       /\ diagnostics' = diagnostics \o r.p.errors
       /\ hadError' = (hadError \/ r.p.errors # <<>>)
       /\ last' = [name |-> "parser", thrown |-> r.sig, interpreted |-> FALSE,
                   out |-> 0, trace |-> 0, tokens |-> tokens, statements |-> r.v,
                   parsed |-> r.p.history, current |-> r.p.current]
  /\ pc' = "exit"
  /\ UNCHANGED <<interpreter, hadRuntimeError, exitCode, lines>>

ParserNext ==
  \/ \E n \in 1 .. MaxTokens : \E f \in [1 .. n -> DOMAIN TokenAlphabet] : parse(Stream(f, n))
  \/ \E n \in DOMAIN ParserPrograms : parse(ParserPrograms[n])

SpecParser == Init /\ [][ParserNext]_vars

\* The history of the latest parse and the type of the token at a position.
ParserHistory == IF last.name = "parser" THEN last.parsed ELSE <<>>
TypeAt(position) == last.tokens[position + 1].type

\* The first position after the token at position `from` that is at EOF,
\* just after a `;` or just before a keyword synchronize knows; `from` itself
\* when that token is EOF.
SyncPoint(from) ==
  IF TypeAt(from) = "EOF" THEN from
  ELSE LET stops == {q \in (from + 1) .. (Len(last.tokens) - 1) :
                       \/ TypeAt(q) = "EOF"
                       \/ TypeAt(q - 1) = "SEMICOLON"
                       \/ TypeAt(q) \in SynchronizeKeywords}
       IN CHOOSE q \in stops : \A k \in stops : q <= k

\* The first position, the token at `from` included, that is at EOF, just
\* before a keyword, or just after a `;` met from `from` on.
FirstStop(from) ==
  LET stops == {q \in from .. (Len(last.tokens) - 1) :
                  \/ TypeAt(q) = "EOF"
                  \/ TypeAt(q) \in SynchronizeKeywords
                  \/ (q > from /\ TypeAt(q - 1) = "SEMICOLON")}
  IN CHOOSE q \in stops : \A k \in stops : q <= k

\* C20 as stated: synchronize leaves the cursor at the first position from
\* the offending token on that is just after a `;`, just before one of the
\* keywords, or at EOF.
SynchronizeFirstStop ==
  \A i \in DOMAIN ParserHistory :
    ParserHistory[i].e = "synchronize"
      => ParserHistory[i].b = FirstStop(ParserHistory[i].a)

\* C20, amended: synchronize runs with the cursor on the token the error was
\* reported at, always discards that token (unless it is EOF), and then
\* discards tokens up to the first position just after a `;`, just before one
\* of the keywords, or at EOF; the next thing the parser does is begin a
\* declaration at exactly that position, or leave the loop it is in when
\* that position holds `}` or EOF.
SynchronizePoint ==
  \A i \in DOMAIN ParserHistory :
    ParserHistory[i].e = "synchronize"
      => /\ i > 1 /\ ParserHistory[i - 1].e = "error"
         /\ ParserHistory[i - 1].a = ParserHistory[i].a
         /\ ParserHistory[i - 1].b = ParserHistory[i].a
         /\ ParserHistory[i].b = SyncPoint(ParserHistory[i].a)
         /\ i + 1 \in DOMAIN ParserHistory
         /\ ParserHistory[i + 1].a = ParserHistory[i].b
         /\ \/ ParserHistory[i + 1].e = "declaration"
            \/ /\ ParserHistory[i + 1].e = "loopExit"
               /\ TypeAt(ParserHistory[i].b) \in {"RIGHT_BRACE", "EOF"}
         /\ (ParserHistory[i + 1].e = "loopExit" /\ ParserHistory[i + 1].x = "parse")
              => TypeAt(ParserHistory[i].b) = "EOF"

\* `print var x = 1; print x;` was parsed: the error is at `var`, the
\* synchronisation discards `var x = 1 ;`, and the declaration that begins
\* after the `;` is the one statement returned.
SynchronizePointWitness ==
  /\ last.name = "parser" /\ Len(last.tokens) = 10
  /\ \E i \in DOMAIN ParserHistory :
       /\ ParserHistory[i].e = "synchronize"
       /\ ParserHistory[i].a = 1 /\ TypeAt(1) = "VAR"
       /\ ParserHistory[i].b = 6 /\ TypeAt(5) = "SEMICOLON"
       /\ ParserHistory[i + 1].e = "declaration" /\ ParserHistory[i + 1].a = 6
  /\ Len(last.statements) = 1 /\ last.statements[1].kind = "Print"
  /\ diagnostics = <<"Expect expression.">>


\* The events of one kind in the parser's history, in order.
ParserEvents(kind) ==
  SelectSeq(ParserHistory, LAMBDA ev : ev.e = kind)
\* The statements pushed by the loop of parse.
TopLevelPushes ==
  SelectSeq(ParserHistory, LAMBDA ev : ev.e = "push" /\ ev.x = "parse")
\* The messages of the errors that are thrown (error without throw reports
\* only the two below).
IsThrown(message) ==
  message \notin {"Invalid assignment target.", "Can't have more than 255 arguments.",
                  "Can't have more than 255 parameters."}
\* The first statement that parse pushes for the tokens from position `from`
\* on, taken alone: where it ends and its kind; "none" if the first
\* declaration fails or there is none.
AloneFrom(from) ==
  LET K(r) ==
        IF \E i \in DOMAIN r.p.history :
             /\ r.p.history[i].e = "push" /\ r.p.history[i].x = "parse"
             /\ r.p.history[i].a = 0
        THEN [end |-> from + r.p.history[CHOOSE i \in DOMAIN r.p.history :
                                           /\ r.p.history[i].e = "push"
                                           /\ r.p.history[i].x = "parse"
                                           /\ r.p.history[i].a = 0].b,
              kind |-> r.v[1].kind]
        ELSE [end |-> from, kind |-> "none"]
  IN K(Parser_parse(NewParser(SubSeq(last.tokens, from + 1, Len(last.tokens)))))

\* The declarations begun and not yet ended (pushed, or failed and
\* synchronised) before event i: 0 when event i is in the loop of parse.
DeclarationsOpen(i) ==
  Cardinality({j \in 1 .. (i - 1) : ParserHistory[j].e = "declaration"})
    - Cardinality({j \in 1 .. (i - 1) : ParserHistory[j].e \in {"push", "synchronize"}})

\* C21: parse always runs to EOF and throws nothing.  Every declaration it
\* began either failed, with one thrown error of its own followed by one
\* synchronisation, or was pushed by the loop that began it; the statements
\* returned are the top-level pushes, in order.  A top-level declaration
\* that begins where a synchronisation ended is parsed as if the stream
\* began there: errors before it change nothing.  The stream
\* `print ; var = 1; print x; x = ; var y; { 1 2; print y; ); }` gets five
\* reports and returns print x, var y and the block with print y.
ErrorIsolation ==
  last.name = "parser" =>
    /\ last.thrown = "ok" /\ TypeAt(last.current) = "EOF"
    /\ ParserHistory[Len(ParserHistory)].e = "loopExit"
    /\ ParserHistory[Len(ParserHistory)].x = "parse"
    /\ Len(ParserEvents("declaration"))
         = Len(ParserEvents("synchronize")) + Len(ParserEvents("push"))
    /\ \A i \in DOMAIN ParserHistory :
         (ParserHistory[i].e = "error" /\ IsThrown(ParserHistory[i].x))
           => ParserHistory[i + 1].e = "synchronize"
    /\ Len(ParserEvents("synchronize")) <= Len(diagnostics)
    /\ Len(last.statements) = Len(TopLevelPushes)
    /\ \A k \in DOMAIN TopLevelPushes : last.statements[k].kind = TopLevelPushes[k].v.v
    /\ \A i \in DOMAIN ParserHistory :
         (/\ ParserHistory[i].e = "declaration"
          /\ i > 1 /\ ParserHistory[i - 1].e = "synchronize"
          /\ DeclarationsOpen(i) = 0)
           => LET alone == AloneFrom(ParserHistory[i].a) IN
              IF alone.kind = "none"
              THEN \A j \in DOMAIN ParserHistory :
                     ~(ParserHistory[j].e = "push" /\ ParserHistory[j].x = "parse"
                         /\ ParserHistory[j].a = ParserHistory[i].a)
              ELSE \E j \in DOMAIN ParserHistory :
                     /\ ParserHistory[j].e = "push" /\ ParserHistory[j].x = "parse"
                     /\ ParserHistory[j].a = ParserHistory[i].a
                     /\ ParserHistory[j].b = alone.end
                     /\ ParserHistory[j].v.v = alone.kind
    /\ Len(last.tokens) = 26
         => /\ diagnostics = <<"Expect expression.", "Expect variable name.",
                               "Expect expression.", "Expect ';' after value.",
                               "Expect expression.">>
            /\ Len(last.statements) = 3
            /\ last.statements[1].kind = "Print" /\ last.statements[2].kind = "Var"
            /\ last.statements[3].kind = "Block"
            /\ Len(last.statements[3].statements) = 1
            /\ last.statements[3].statements[1].kind = "Print"

\* The stream with five ill-formed declarations was parsed: five errors,
\* five synchronisations, and the three well-formed declarations returned.
ErrorIsolationWitness ==
  /\ last.name = "parser" /\ Len(last.tokens) = 26
  /\ Len(ParserEvents("synchronize")) = 5 /\ Len(diagnostics) = 5
  /\ Len(last.statements) = 3 /\ Len(TopLevelPushes) = 3
  /\ TopLevelPushes[1].a = 6 /\ TopLevelPushes[1].b = 9


\* C22: an `=` after a target that is neither a Variable nor a Get is
\* reported once, at that `=`, after the whole right-hand side was consumed;
\* nothing is thrown and no synchronisation follows, the target expression
\* is what assignment returns and the statement goes on from the cursor
\* after the value.  A Variable target gives an Assignment, a Get target a
\* Set.  `(x) = 1; x.y = 2; x = y = 3; 1 = 2 = 3; print f() = 4;` gets four
\* reports and returns all five statements.
InvalidAssignmentTarget ==
  last.name = "parser" =>
    /\ \A i \in DOMAIN ParserHistory :
         ParserHistory[i].e = "assignment"
           => /\ TypeAt(ParserHistory[i].a) = "EQUAL"
              /\ ParserHistory[i].b > ParserHistory[i].a + 1
              /\ ParserHistory[i].v.v = "Variable" <=> ParserHistory[i].x = "Assignment"
              /\ ParserHistory[i].v.v = "Get" <=> ParserHistory[i].x = "Set"
              /\ ParserHistory[i].v.v \notin {"Variable", "Get"}
                   <=> (/\ i > 1 /\ ParserHistory[i - 1].e = "error"
                        /\ ParserHistory[i - 1].x = "Invalid assignment target."
                        /\ ParserHistory[i - 1].b = ParserHistory[i].a
                        /\ ParserHistory[i - 1].a = ParserHistory[i].b)
              /\ ParserHistory[i].v.v \notin {"Variable", "Get"}
                   => ParserHistory[i].x = ParserHistory[i].v.v
    /\ \A i \in DOMAIN ParserHistory :
         (ParserHistory[i].e = "error" /\ ParserHistory[i].x = "Invalid assignment target.")
           => /\ ParserHistory[i + 1].e = "assignment"
              /\ \A j \in DOMAIN ParserHistory :
                   (j # i /\ ParserHistory[j].e = "error"
                      /\ ParserHistory[j].x = "Invalid assignment target.")
                     => ParserHistory[j].b # ParserHistory[i].b
    /\ Len(last.tokens) = 32
         => /\ diagnostics = <<"Invalid assignment target.", "Invalid assignment target.",
                               "Invalid assignment target.", "Invalid assignment target.">>
            /\ ParserEvents("synchronize") = <<>>
            /\ Len(last.statements) = 5
            /\ last.statements[1].expression.kind = "Grouping"
            /\ last.statements[2].expression.kind = "Set"
            /\ last.statements[2].expression.object.kind = "Variable"
            /\ last.statements[2].expression.object.name = "x"
            /\ last.statements[2].expression.name = "y"
            /\ last.statements[3].expression.kind = "Assignment"
            /\ last.statements[3].expression.name = "x"
            /\ last.statements[3].expression.value.kind = "Assignment"
            /\ last.statements[4].expression.kind = "Literal"
            /\ last.statements[5].kind = "Print"
            /\ last.statements[5].expression.kind = "Call"
            /\ TopLevelPushes[5].b = 31

\* `(x) = 1; ...` was parsed: the first `=` was reported with the cursor
\* after the 1, and the statement ended at its `;`, two tokens later no
\* more.
InvalidAssignmentTargetWitness ==
  /\ last.name = "parser" /\ Len(last.tokens) = 32
  /\ \E i \in DOMAIN ParserHistory :
       /\ ParserHistory[i].e = "error" /\ ParserHistory[i].x = "Invalid assignment target."
       /\ ParserHistory[i].b = 3 /\ ParserHistory[i].a = 5
       /\ ParserHistory[i + 1].e = "assignment" /\ ParserHistory[i + 1].v.v = "Grouping"
       /\ ParserHistory[i + 2].e = "push" /\ ParserHistory[i + 2].b = 6
  /\ Len(last.statements) = 5


\* ------------------------------------------------ for loops, parsed and run
\* Largest count N of the loops.
MaxCount == 3

\* A loop to try: which clauses the for has, where i starts, its step and
\* the count.  The loop is at top level and is followed by  print i;  and
\* where the for has no initializer,  var i = S;  comes before it.  The body
\* prints i; with no increment clause it steps i itself, and with no
\* condition it fails on print -nil; once i has reached the count.
ForCases ==
  [hasInit : BOOLEAN, hasCond : BOOLEAN, hasInc : BOOLEAN,
   start : 0 .. 1, step : 1 .. 2, count : 0 .. MaxCount]

InitTokens(c) == <<Tok("VAR"), Id("i"), Tok("EQUAL"), NumTok(c.start), Tok("SEMICOLON")>>
CondTokens(c) == <<Id("i"), Tok("LESS"), NumTok(c.count)>>
IncTokens(c) == <<Id("i"), Tok("EQUAL"), Id("i"), Tok("PLUS"), NumTok(c.step)>>
\* if (i >= N) print -nil; else
GuardTokens(c) ==
  <<Tok("IF"), Tok("LEFT_PAREN"), Id("i"), Tok("GREATER_EQUAL"), NumTok(c.count),
    Tok("RIGHT_PAREN"), Tok("PRINT"), Tok("MINUS"), Tok("NIL"), Tok("SEMICOLON"), Tok("ELSE")>>
\* print i;    or    print i = i + D;    after the guard, if any
BodyTokens(c) ==
  (IF c.hasCond THEN <<>> ELSE GuardTokens(c))
  \o <<Tok("PRINT")>>
  \o (IF c.hasInc THEN <<Id("i")>> ELSE IncTokens(c))
  \o <<Tok("SEMICOLON")>>

\* for (init; cond; inc) body
ForLoop(c) ==
  <<Tok("FOR"), Tok("LEFT_PAREN")>>
  \o (IF c.hasInit THEN InitTokens(c) ELSE <<Tok("SEMICOLON")>>)
  \o (IF c.hasCond THEN CondTokens(c) ELSE <<>>) \o <<Tok("SEMICOLON")>>
  \o (IF c.hasInc THEN IncTokens(c) ELSE <<>>) \o <<Tok("RIGHT_PAREN")>>
  \o BodyTokens(c)

\* { init; while (cond) { body inc; } }
WhileLoop(c) ==
  <<Tok("LEFT_BRACE")>>
  \o (IF c.hasInit THEN InitTokens(c) ELSE <<>>)
  \o <<Tok("WHILE"), Tok("LEFT_PAREN")>>
  \o (IF c.hasCond THEN CondTokens(c) ELSE <<Tok("TRUE")>>)
  \o <<Tok("RIGHT_PAREN"), Tok("LEFT_BRACE")>>
  \o BodyTokens(c)
  \o (IF c.hasInc THEN IncTokens(c) \o <<Tok("SEMICOLON")>> ELSE <<>>)
  \o <<Tok("RIGHT_BRACE"), Tok("RIGHT_BRACE")>>

\* The whole program around a loop.
LoopProgram(c, loop) ==
  (IF c.hasInit THEN <<>> ELSE InitTokens(c))
  \o loop \o <<Tok("PRINT"), Id("i"), Tok("SEMICOLON"), EOF>>

\* Lox.run on the tokens the scanner gave: parse, then resolve and interpret
\* unless an error was reported.
Lox_runTokens(L, name, tokens) ==
  LET K(r) == Lox_run(L, SourceWithErrors(name, r.v, r.p.errors))
  IN K(Parser_parse(NewParser(tokens)))

\* What one run left: the statements parsed, what was reported and printed,
\* and the interpreter.
RunOf(tokens, L) ==
  [statements |-> Parser_parse(NewParser(tokens)).v, diagnostics |-> L.diagnostics,
   out |-> L.interpreter.out, interpreter |-> L.interpreter, thrown |-> L.thrown,
   hadRuntimeError |-> L.hadRuntimeError]

\* One file with the for loop is run, and beside it one with the loop
\* written out as a block and a while.
runLoops(c) ==
  /\ pc = "main"
  /\ \E L \in {Lox_runTokens(LoxState(0), "for", LoopProgram(c, ForLoop(c)))} :
     \E W \in {Lox_runTokens(LoxState(0), "while", LoopProgram(c, WhileLoop(c)))} :
       /\ L.thrown = "ok" /\ W.thrown = "ok"
       /\ interpreter' = L.interpreter
       /\ hadError' = L.hadError
       /\ hadRuntimeError' = L.hadRuntimeError
       /\ diagnostics' = L.diagnostics
       /\ exitCode' = IF L.hadError THEN 65 ELSE IF L.hadRuntimeError THEN 70 ELSE 0
       /\ last' = [name |-> "loops", thrown |-> L.thrown, interpreted |-> L.interpreted,
                   out |-> 0, trace |-> 0, case |-> c,
                   for |-> RunOf(LoopProgram(c, ForLoop(c)), L),
                   while |-> RunOf(LoopProgram(c, WhileLoop(c)), W)]
  /\ pc' = "exit"
  /\ UNCHANGED lines

LoopsNext == \E c \in ForCases : runLoops(c)

SpecLoops == Init /\ [][LoopsNext]_vars

\* The values of i at which the body runs, and the value that ends the loop.
RECURSIVE Counted(_, _, _)
Counted(start, step, count) ==
  IF start >= count THEN <<>> ELSE <<start>> \o Counted(start + step, step, count)
RECURSIVE CountedEnd(_, _, _)
CountedEnd(start, step, count) ==
  IF start >= count THEN start ELSE CountedEnd(start + step, step, count)

\* What the program of a case has to print: each value of i the body sees
\* (the stepped one when the body does the stepping), then what ends the run.
Expected(c) ==
  [k \in DOMAIN Counted(c.start, c.step, c.count) |->
     ToString(Counted(c.start, c.step, c.count)[k] + (IF c.hasInc THEN 0 ELSE c.step))]
  \o (IF ~c.hasCond THEN <<"Operand must be a number.">>
      ELSE IF c.hasInit THEN <<"Undefined variable i.">>
      ELSE <<ToString(CountedEnd(c.start, c.step, c.count))>>)

\* The statement the for loop was parsed into.
ForParsed == last.for.statements[IF last.case.hasInit THEN 1 ELSE 2]
\* The while statement in it.
ForParsedWhile == ForParsed.statements[Len(ForParsed.statements)]

\* C23: a for loop is parsed into a block of the initializer (if any) and a
\* while whose condition is the loop's (the literal true if there is none)
\* and whose body is a block of the loop's body and the increment (if any) as
\* an expression statement.  Run, it prints exactly what the written-out
\* block-and-while prints: the values of i from the start below the count, in
\* order, none when the count is not above the start.  The variable of the
\* initializer lives in the frame of the outer block: the loop leaves no i in
\* globals and the print i; after it fails.
ForDesugaring ==
  last.name = "loops" =>
    /\ last.for.diagnostics = <<>> /\ last.while.diagnostics = <<>>
    /\ last.for.out = last.while.out
    /\ last.for.out = Expected(last.case)
    /\ last.for.hadRuntimeError = (last.case.hasInit \/ ~last.case.hasCond)
    /\ last.while.hadRuntimeError = last.for.hadRuntimeError
    /\ ("i" \in DOMAIN last.for.interpreter.envs[Globals].values) = ~last.case.hasInit
    /\ Len(last.for.interpreter.envs) = Len(last.while.interpreter.envs)
    /\ \A e \in DOMAIN last.for.interpreter.envs :
         /\ last.for.interpreter.envs[e].enclosing = last.while.interpreter.envs[e].enclosing
         /\ DOMAIN last.for.interpreter.envs[e].values
              = DOMAIN last.while.interpreter.envs[e].values
    /\ ForParsed.kind = "Block"
    /\ Len(ForParsed.statements) = IF last.case.hasInit THEN 2 ELSE 1
    /\ last.case.hasInit
         => (ForParsed.statements[1].kind = "Var" /\ ForParsed.statements[1].name = "i")
    /\ ForParsedWhile.kind = "While"
    /\ IF last.case.hasCond
       THEN ForParsedWhile.condition.kind = "Binary"
            /\ ForParsedWhile.condition.operator = "LESS"
       ELSE ForParsedWhile.condition.kind = "Literal"
            /\ ForParsedWhile.condition.value.t = "bool"
            /\ ForParsedWhile.condition.value.v
    /\ ForParsedWhile.body.kind = "Block"
    /\ Len(ForParsedWhile.body.statements) = IF last.case.hasInc THEN 2 ELSE 1
    /\ ForParsedWhile.body.statements[1].kind = IF last.case.hasCond THEN "Print" ELSE "If"
    /\ last.case.hasInc
         => /\ ForParsedWhile.body.statements[2].kind = "Expression"
            /\ ForParsedWhile.body.statements[2].expression.kind = "Assignment"
            /\ ForParsedWhile.body.statements[2].expression.name = "i"

\* The full loop from 0 by 1 below 3 was run: it printed 0, 1, 2, then
\* print i; failed, and i sits at 3 in a frame whose parent is globals.
ForDesugaringWitness ==
  /\ last.name = "loops"
  /\ last.case.hasInit /\ last.case.hasCond /\ last.case.hasInc
  /\ last.case.start = 0 /\ last.case.step = 1 /\ last.case.count = 3
  /\ last.for.out = <<"0", "1", "2", "Undefined variable i.">>
  /\ \E e \in DOMAIN interpreter.envs :
       /\ "i" \in DOMAIN interpreter.envs[e].values
       /\ interpreter.envs[e].enclosing = Globals
       /\ interpreter.envs[e].values["i"].v = 3


\* ------------------------------------------------------- the class grammar
\* The parse of  class B < A { say() { super.say(); print "B"; } }
SubclassParsed == last.name = "parser" /\ Len(last.tokens) = 21 /\ TypeAt(2) = "LESS"

\* C24: the program  class B < A { say() { super.say(); print "B"; } }
\* parses with no diagnostic into one Class statement whose superclass is the
\* Variable A and whose method say calls the Super node for say.
ClassGrammar ==
  SubclassParsed =>
    /\ ParserEvents("error") = <<>>
    /\ Len(last.statements) = 1
    /\ last.statements[1].kind = "Class"
    /\ last.statements[1].name = "B"
    /\ "superclass" \in DOMAIN last.statements[1]
    /\ last.statements[1].superclass.kind = "Variable"
    /\ last.statements[1].superclass.name = "A"
    /\ Len(last.statements[1].methods) = 1
    /\ last.statements[1].methods[1].body[1].expression.callee.kind = "Super"


\* ============================================================ the scanner
\* Scanner of src/unnamed/part_002 (517-701).  The source text is a sequence
\* of characters, each a string of one character; positions are 0-based as
\* in the code, so charAt(i) is source[i + 1].

\* What peek and peekNext give past the end of the text ("\0" in the code).
NUL == "NUL"

Digits == <<"0", "1", "2", "3", "4", "5", "6", "7", "8", "9">>
isDigit(c) == \E i \in DOMAIN Digits : Digits[i] = c
DigitValue(c) == (CHOOSE i \in DOMAIN Digits : Digits[i] = c) - 1

Letters ==
  {
   "a", "b", "c", "d", "e", "f", "g", "h", "i", "j", "k", "l", "m", "n", "o", "p", "q",
   "r", "s", "t", "u", "v", "w", "x", "y", "z", "A", "B", "C", "D", "E", "F", "G", "H",
   "I", "J", "K", "L", "M", "N", "O", "P", "Q", "R", "S", "T", "U", "V", "W", "X", "Y",
   "Z"}
isAlpha(c) == c \in Letters \/ c = "_"
isAlphaNumeric(c) == isAlpha(c) \/ isDigit(c)

\* The own properties of the object literal keywords: word and token type.
keywords ==
  <<
    <<"and", "AND">>, <<"class", "CLASS">>, <<"else", "ELSE">>, <<"false", "FALSE">>,
    <<"for", "FOR">>, <<"fun", "FUN">>, <<"if", "IF">>, <<"nil", "NIL">>,
    <<"or", "OR">>, <<"print", "PRINT">>, <<"return", "RETURN">>, <<"super", "SUPER">>,
    <<"this", "THIS">>, <<"true", "TRUE">>, <<"var", "VAR">>, <<"while", "WHILE">>>>

\* The properties every object literal inherits from Object.prototype; a
\* property access keywords[text] finds them when text is no own property.
ObjectPrototype ==
  {"constructor", "hasOwnProperty", "isPrototypeOf", "propertyIsEnumerable",
   "toLocaleString", "toString", "valueOf", "__proto__", "__defineGetter__",
   "__defineSetter__", "__lookupGetter__", "__lookupSetter__"}

\* keywords[text]: the own property, else the inherited member (a function or
\* object, so truthy), else undefined.
keywords_get(text) ==
  IF \E i \in DOMAIN keywords : keywords[i][1] = text
  THEN keywords[CHOOSE i \in DOMAIN keywords : keywords[i][1] = text][2]
  ELSE IF text \in ObjectPrototype THEN "Object.prototype." \o text
  ELSE "undefined"

\* new Token(type, lexeme, literal, line)
new_Token(type, lexeme, literal, line) ==
  [type |-> type, lexeme |-> lexeme, literal |-> literal, line |-> line]

NewScanner(source) ==
  [source |-> source, tokens |-> <<>>, start |-> 0, current |-> 0, line |-> 1,
   errors |-> <<>>]

\* Lox.error(line, message), kept with the scanner until the run reports it.
Scanner_error(sc, line, message) ==
  [sc EXCEPT !.errors = Append(@, [line |-> line, message |-> message])]

\* source.substring(from, to)
RECURSIVE substring(_, _, _)
substring(source, from, to) ==
  IF from >= to \/ from >= Len(source) THEN ""
  ELSE source[from + 1] \o substring(source, from + 1, to)

Scanner_isAtEnd(sc) == sc.current >= Len(sc.source)
Scanner_charAt(sc, i) == IF i < Len(sc.source) THEN sc.source[i + 1] ELSE ""
Scanner_advance(sc) == [sc EXCEPT !.current = @ + 1]
Scanner_peek(sc) == IF Scanner_isAtEnd(sc) THEN NUL ELSE Scanner_charAt(sc, sc.current)
Scanner_peekNext(sc) ==
  IF sc.current + 1 >= Len(sc.source) THEN NUL ELSE Scanner_charAt(sc, sc.current + 1)
\* match: whether it matches, and the scanner after it.
Scanner_matches(sc, expected) ==
  ~Scanner_isAtEnd(sc) /\ Scanner_charAt(sc, sc.current) = expected
Scanner_match(sc, expected) ==
  IF Scanner_matches(sc, expected) THEN Scanner_advance(sc) ELSE sc

Scanner_addToken(sc, type, literal) ==
  [sc EXCEPT !.tokens =
     Append(@, new_Token(type, substring(sc.source, sc.start, sc.current), literal, sc.line))]

\* The while loop of a // comment.
RECURSIVE Scanner_commentLoop(_)
Scanner_commentLoop(sc) ==
  IF Scanner_peek(sc) # "\n" /\ ~Scanner_isAtEnd(sc)
  THEN Scanner_commentLoop(Scanner_advance(sc))
  ELSE sc

\* The while loop of string.
RECURSIVE Scanner_stringLoop(_)
Scanner_stringLoop(sc) ==
  IF Scanner_peek(sc) # "\"" /\ ~Scanner_isAtEnd(sc)
  THEN Scanner_stringLoop(Scanner_advance(
         IF Scanner_peek(sc) = "\n" THEN [sc EXCEPT !.line = @ + 1] ELSE sc))
  ELSE sc

Scanner_string(sc) ==
  LET K(s1) ==
        IF Scanner_isAtEnd(s1) THEN Scanner_error(s1, s1.line, "Unterminated string.")
        ELSE LET K2(s2) ==
                   Scanner_addToken(s2, "STRING",
                                    Str(substring(s2.source, s2.start + 1, s2.current - 1)))
             IN K2(Scanner_advance(s1))
  IN K(Scanner_stringLoop(sc))

\* The while loops of number.
RECURSIVE Scanner_digitsLoop(_)
Scanner_digitsLoop(sc) ==
  IF isDigit(Scanner_peek(sc)) THEN Scanner_digitsLoop(Scanner_advance(sc)) ELSE sc

\* parseFloat of digits with an optional fraction: the whole part, and the
\* fraction as its digits over a power of ten.
RECURSIVE parseDigits(_, _, _, _)
parseDigits(source, from, to, acc) ==
  IF from >= to THEN acc
  ELSE parseDigits(source, from + 1, to, 10 * acc + DigitValue(source[from + 1]))
RECURSIVE PowerOfTen(_)
PowerOfTen(n) == IF n = 0 THEN 1 ELSE 10 * PowerOfTen(n - 1)
parseFloat(source, from, dot, to) ==
  [t |-> "num", v |-> parseDigits(source, from, dot, 0),
   numerator |-> IF dot < to THEN parseDigits(source, dot + 1, to, 0) ELSE 0,
   denominator |-> IF dot < to THEN PowerOfTen(to - dot - 1) ELSE 1]

Scanner_number(sc) ==
  LET K(s1) ==
        IF Scanner_peek(s1) = "." /\ isDigit(Scanner_peekNext(s1))
        THEN LET K2(s2) ==
                   Scanner_addToken(s2, "NUMBER",
                                    parseFloat(s2.source, s2.start, s1.current, s2.current))
             IN K2(Scanner_digitsLoop(Scanner_advance(s1)))
        ELSE Scanner_addToken(s1, "NUMBER",
                              parseFloat(s1.source, s1.start, s1.current, s1.current))
  IN K(Scanner_digitsLoop(sc))

\* The while loop of identifier.
RECURSIVE Scanner_identifierLoop(_)
Scanner_identifierLoop(sc) ==
  IF isAlphaNumeric(Scanner_peek(sc)) THEN Scanner_identifierLoop(Scanner_advance(sc))
  ELSE sc

Scanner_identifier(sc) ==
  LET K(s1) ==
        LET Type(found) == IF found # "undefined" THEN found ELSE "IDENTIFIER"
        IN Scanner_addToken(s1, Type(keywords_get(substring(s1.source, s1.start, s1.current))),
                            Nil)
  IN K(Scanner_identifierLoop(sc))

\* The single-character tokens of scanToken.
SingleCharacter ==
  <<<<"(", "LEFT_PAREN">>, <<")", "RIGHT_PAREN">>, <<"{", "LEFT_BRACE">>,
    <<"}", "RIGHT_BRACE">>, <<",", "COMMA">>, <<".", "DOT">>, <<"-", "MINUS">>,
    <<"+", "PLUS">>, <<";", "SEMICOLON">>, <<"*", "STAR">>>>
\* The tokens that an = after them makes another.
WithEqual ==
  <<<<"!", "BANG", "BANG_EQUAL">>, <<"=", "EQUAL", "EQUAL_EQUAL">>,
    <<"<", "LESS", "LESS_EQUAL">>, <<">", "GREATER", "GREATER_EQUAL">>>>

Scanner_scanToken(sc0) ==
  LET c == Scanner_charAt(sc0, sc0.current)
      sc == Scanner_advance(sc0)
  IN IF \E i \in DOMAIN SingleCharacter : SingleCharacter[i][1] = c
     THEN Scanner_addToken(sc, SingleCharacter[CHOOSE i \in DOMAIN SingleCharacter :
                                                 SingleCharacter[i][1] = c][2], Nil)
     ELSE IF \E i \in DOMAIN WithEqual : WithEqual[i][1] = c
     THEN LET row == WithEqual[CHOOSE i \in DOMAIN WithEqual : WithEqual[i][1] = c]
          IN Scanner_addToken(Scanner_match(sc, "="),
                              IF Scanner_matches(sc, "=") THEN row[3] ELSE row[2], Nil)
     ELSE IF c = "/"
     THEN IF Scanner_matches(sc, "/")
          THEN Scanner_commentLoop(Scanner_match(sc, "/"))
          ELSE Scanner_addToken(sc, "SLASH", Nil)
     ELSE IF c \in {" ", "\r", "\t"} THEN sc
     ELSE IF c = "\n" THEN [sc EXCEPT !.line = @ + 1]
     ELSE IF c = "\"" THEN Scanner_string(sc)
     ELSE IF isDigit(c) THEN Scanner_number(sc)
     ELSE IF isAlpha(c) THEN Scanner_identifier(sc)
     ELSE Scanner_error(sc, sc.line, "Unexpected character.")

\* The while loop of scanTokens.
RECURSIVE Scanner_scanLoop(_)
Scanner_scanLoop(sc) ==
  IF ~Scanner_isAtEnd(sc)
  THEN Scanner_scanLoop(Scanner_scanToken([sc EXCEPT !.start = sc.current]))
  ELSE sc

Scanner_scanTokens(sc) ==
  LET K(s1) == [s1 EXCEPT !.tokens = Append(@, new_Token("EOF", "", Nil, s1.line))]
  IN K(Scanner_scanLoop(sc))


\* ---------------------------------------------------- texts for the scanner
\* Longest text made of the letters of ScannerAlphabet.
MaxChars == 3

ScannerAlphabet == <<"\"", "\n", "o", "r", "1", " ">>

\* The text that the choice f of letters spells.
Text(f, n) == [i \in 1 .. n |-> ScannerAlphabet[f[i]]]

\* Single words: the reserved words and other identifiers.
ScannerWords ==
  <<
    <<"a", "n", "d">>, <<"c", "l", "a", "s", "s">>, <<"e", "l", "s", "e">>,
    <<"f", "a", "l", "s", "e">>, <<"f", "o", "r">>, <<"f", "u", "n">>, <<"i", "f">>,
    <<"n", "i", "l">>, <<"o", "r">>, <<"p", "r", "i", "n", "t">>,
    <<"r", "e", "t", "u", "r", "n">>, <<"s", "u", "p", "e", "r">>,
    <<"t", "h", "i", "s">>, <<"t", "r", "u", "e">>, <<"v", "a", "r">>,
    <<"w", "h", "i", "l", "e">>,
    <<"c", "o", "n", "s", "t", "r", "u", "c", "t", "o", "r">>,
    <<"t", "o", "S", "t", "r", "i", "n", "g">>, <<"v", "a", "l", "u", "e", "O", "f">>,
    <<"h", "a", "s", "O", "w", "n", "P", "r", "o", "p", "e", "r", "t", "y">>,
    <<"_", "_", "p", "r", "o", "t", "o", "_", "_">>, <<"c", "l", "a", "s", "s", "y">>,
    <<"_", "a", "n", "d">>, <<"A", "n", "d">>, <<"o", "r", "2">>, <<"n", "i", "l", "_">>,
    <<"x">>, <<"o", "r", "c", "h", "i", "d">>, <<"F", "O", "R">>, <<"t", "h", "i">>,
    <<"s", "u", "p", "e", "r", "b">>>>

\* Longer texts.
ScannerTexts ==
  <<
    \* var constructor = 1;
    <<"v", "a", "r", " ", "c", "o", "n", "s", "t", "r", "u", "c", "t", "o", "r", " ", "=", " ", "1", ";">>,
    \* print "a" + "b"; // "c\nprint 1.5 >= 2 != !true;
    <<"p", "r", "i", "n", "t", " ", "\"", "a", "\"", " ", "+", " ", "\"", "b", "\"", ";", " ", "/", "/", " ", "\"", "c", "\n", "p", "r", "i", "n", "t", " ", "1", ".", "5", " ", ">", "=", " ", "2", " ", "!", "=", " ", "!", "t", "r", "u", "e", ";">>,
    \* x = "one\ntwo";\ny = "three\nfour
    <<"x", " ", "=", " ", "\"", "o", "n", "e", "\n", "t", "w", "o", "\"", ";", "\n", "y", " ", "=", " ", "\"", "t", "h", "r", "e", "e", "\n", "f", "o", "u", "r">>,
    \* { a.b(c, d) - 3 * 4 / 5 <= 6 == 7 < 8 > 9; } @
    <<"{", " ", "a", ".", "b", "(", "c", ",", " ", "d", ")", " ", "-", " ", "3", " ", "*", " ", "4", " ", "/", " ", "5", " ", "<", "=", " ", "6", " ", "=", "=", " ", "7", " ", "<", " ", "8", " ", ">", " ", "9", ";", " ", "}", " ", "@">>>>

\* new Scanner(source).scanTokens(), as Lox.run calls it; each Lox.error of
\* the scanner goes to the diagnostics and sets hadError.
scanTokens(source) ==
  /\ pc = "main"
  /\ \E sc \in {Scanner_scanTokens(NewScanner(source))} :
       /\ diagnostics' = diagnostics \o [i \in DOMAIN sc.errors |-> sc.errors[i].message]
       /\ hadError' = (hadError \/ sc.errors # <<>>)
       /\ last' = [name |-> "scanner", thrown |-> "ok", interpreted |-> FALSE,
                   out |-> 0, trace |-> 0, source |-> source, tokens |-> sc.tokens,
                   errors |-> sc.errors, line |-> sc.line]
  /\ pc' = "exit"
  /\ UNCHANGED <<interpreter, hadRuntimeError, exitCode, lines>>

ScannerNext ==
  \/ \E n \in 0 .. MaxChars : \E f \in [1 .. n -> DOMAIN ScannerAlphabet] :
       scanTokens(Text(f, n))
  \/ \E n \in DOMAIN ScannerWords : scanTokens(ScannerWords[n])
  \/ \E n \in DOMAIN ScannerTexts : scanTokens(ScannerTexts[n])

SpecScanner == Init /\ [][ScannerNext]_vars

\* The tokens and reports of the latest scan.
Scanned == IF last.name = "scanner" THEN last.tokens ELSE <<>>
ScanErrors == IF last.name = "scanner" THEN last.errors ELSE <<>>

\* The token types that are not given to a word.
NotWordTypes ==
  {"LEFT_PAREN", "RIGHT_PAREN", "LEFT_BRACE", "RIGHT_BRACE", "COMMA", "DOT", "MINUS",
   "PLUS", "SEMICOLON", "STAR", "SLASH", "BANG", "BANG_EQUAL", "EQUAL", "EQUAL_EQUAL",
   "LESS", "LESS_EQUAL", "GREATER", "GREATER_EQUAL", "STRING", "NUMBER", "EOF"}

\* The 16 reserved words with the token type of each.
ReservedWords ==
  [and |-> "AND", class |-> "CLASS", else |-> "ELSE", false |-> "FALSE", for |-> "FOR",
   fun |-> "FUN", if |-> "IF", nil |-> "NIL", or |-> "OR", print |-> "PRINT",
   return |-> "RETURN", super |-> "SUPER", this |-> "THIS", true |-> "TRUE",
   var |-> "VAR", while |-> "WHILE"]

\* C25: every token scanned from a word (a lexeme of the identifier pattern)
\* has the keyword type of its lexeme when the lexeme is one of the 16
\* reserved words, and the type IDENTIFIER for every other spelling.
KeywordRemapping ==
  \A i \in DOMAIN Scanned :
    Scanned[i].type \notin NotWordTypes =>
      Scanned[i].type = IF Scanned[i].lexeme \in DOMAIN ReservedWords
                        THEN ReservedWords[Scanned[i].lexeme]
                        ELSE "IDENTIFIER"

\* The quotes of the text scanned and the line each is on.
QuotesAt == {i \in DOMAIN last.source : last.source[i] = "\""}
LineOf(i) == 1 + Cardinality({j \in 1 .. (i - 1) : last.source[j] = "\n"})
ScannedStrings == SelectSeq(Scanned, LAMBDA t : t.type = "STRING")

\* C26: in a text without comments whose last quote opens a string that is
\* never closed, the scanner reports Unterminated string. once, at the line
\* that quote is on, gives no STRING token for it (one per closed pair only)
\* and ends the tokens with EOF.
UnterminatedString ==
  (/\ last.name = "scanner"
   /\ \A i \in DOMAIN last.source : last.source[i] # "/"
   /\ Cardinality(QuotesAt) % 2 = 1)
  => /\ \E i \in DOMAIN ScanErrors : ScanErrors[i].message = "Unterminated string."
     /\ \A i \in DOMAIN ScanErrors :
          ScanErrors[i].message = "Unterminated string."
            => /\ i = Len(ScanErrors)
               /\ ScanErrors[i].line = LineOf(CHOOSE q \in QuotesAt : \A r \in QuotesAt : r <= q)
     /\ Len(ScannedStrings) = (Cardinality(QuotesAt) - 1) \div 2
     /\ Scanned[Len(Scanned)].type = "EOF"


\* ------------------------------------------- resolved depths at run time
\* What getAt and assignAt met in the interpreter so far.
Lookups == interpreter.lookups

\* C27: in every run (the interpreter runs only programs on which the
\* resolver reported nothing) each getAt and assignAt made for a resolved
\* Variable, Assignment, This or Super finds, exactly the recorded distance
\* of enclosing links away from the frame it starts at, a frame that exists
\* and already holds the name: getAt yields no absent value and assignAt
\* creates no binding.
DepthAgreement ==
  \A i \in DOMAIN Lookups :
    /\ Lookups[i].frame # 0
    /\ Lookups[i].found
    /\ Lookups[i].distance >= 0

\* A closure read a variable two frames out, `this` and `super` were looked
\* up, assignments reached locals in the current frame and further out, and
\* the counter program printed 2, 1, 4, 2, 2.
DepthAgreementWitness ==
  /\ \E i \in DOMAIN Lookups :
       Lookups[i].access = "getAt" /\ Lookups[i].distance >= 2
       /\ Lookups[i].name \notin {"this", "super"}
  /\ \E i \in DOMAIN Lookups : Lookups[i].name = "this" /\ Lookups[i].found
  /\ \E i \in DOMAIN Lookups : Lookups[i].name = "super" /\ Lookups[i].found
  /\ \E i \in DOMAIN Lookups :
       Lookups[i].access = "assignAt" /\ Lookups[i].distance >= 1 /\ Lookups[i].found
  /\ \E i \in DOMAIN Lookups :
       Lookups[i].access = "assignAt" /\ Lookups[i].distance = 0 /\ Lookups[i].name = "k"
  /\ \E n \in 1 .. (Len(interpreter.out) - 4) :
       SubSeq(interpreter.out, n, n + 4) = <<"2", "1", "4", "2", "2">>


\* ------------------------------------------ the environment after a run
\* The events of the latest run.
RunTrace == SubSeq(interpreter.trace, last.trace + 1, Len(interpreter.trace))

\* C28: whenever Interpreter.interpret has returned, after the last
\* statement or after it reported a runtime error raised inside blocks, calls
\* or a class declaration, the interpreter's environment is globals.
EnvironmentRestored ==
  (last.interpreted /\ last.thrown = "ok") => interpreter.environment = Globals

\* interpret returned after the runtime error of super.nope() inside an
\* initializer, which ran in a frame that is not globals.
EnvironmentRestoredWitness ==
  /\ last.interpreted /\ last.thrown = "ok" /\ hadRuntimeError
  /\ last.name = "superMissing"
  /\ interpreter.out # <<>>
  /\ interpreter.out[Len(interpreter.out)] = "Undefined property 'nope'."
  /\ \E i \in DOMAIN RunTrace :
       RunTrace[i].e = "exec" /\ RunTrace[i].a # Globals /\ RunTrace[i].a # 0
  /\ interpreter.environment = Globals


\* --------------------------------------------- the resolver after a pass
\* How many scopes are open after the first n events of the resolver's
\* history.
ScopesOpen(n) ==
  Cardinality({i \in 1 .. n : Resolved[i].e = "scope"})
    - Cardinality({i \in 1 .. n : Resolved[i].e = "scopeExit"})

\* C29: after resolveStatements, also on a list for which it reported
\* errors, the scope stack is empty and currentFunction and currentClass are
\* NONE; every scope pushed is popped once: each push and pop happens at the
\* depth the pushes and pops before it leave, and none stays open.
ResolverBalanced ==
  last.resolver.ran =>
    /\ last.resolver.scopes = 0
    /\ last.resolver.currentFunction = "NONE"
    /\ last.resolver.currentClass = "NONE"
    /\ ScopesOpen(Len(Resolved)) = 0
    /\ \A i \in DOMAIN Resolved :
         /\ Resolved[i].e = "scope" => Resolved[i].a = ScopesOpen(i)
         /\ Resolved[i].e = "scopeExit" => Resolved[i].a = ScopesOpen(i - 1) /\ Resolved[i].a >= 1

\* A pass that reported an error while three scopes were open, inside a
\* class and a function, and ended balanced.
ResolverBalancedWitness ==
  /\ last.resolver.ran /\ last.resolver.scopes = 0
  /\ \E i \in DOMAIN Resolved : Resolved[i].e = "error" /\ ScopesOpen(i) >= 3
  /\ \E i \in DOMAIN Resolved : Resolved[i].e = "class"
  /\ \E i \in DOMAIN Resolved : Resolved[i].e = "function"


\* ------------------------------------------------ the parser's progress
\* The position at which the iteration began that event i of the history
\* ends (a push or a synchronize): that of the latest declaration still open.
IterationStart(i) ==
  ParserHistory[CHOOSE j \in 1 .. (i - 1) :
                  /\ ParserHistory[j].e = "declaration"
                  /\ DeclarationsOpen(j) = DeclarationsOpen(i) - 1
                  /\ \A k \in (j + 1) .. (i - 1) :
                       ParserHistory[k].e = "declaration"
                         => DeclarationsOpen(k) # DeclarationsOpen(i) - 1].a

\* C30: parse returns, at EOF and without an exception.  Every iteration
\* of the loop of parse and of block ends further in the tokens than it
\* began, or at EOF, whether it pushed a statement or failed and synchronized;
\* every iteration of the loop of a class body that ends consumed a method;
\* synchronize itself discards a token unless it begins at EOF; and every
\* declaration begins after the one begun before it.
ParserProgress ==
  last.name = "parser" =>
    /\ last.thrown = "ok"
    /\ last.current = Len(last.tokens) - 1
    /\ \A i \in DOMAIN ParserHistory :
         /\ ParserHistory[i].e \in {"push", "synchronize"}
              => \/ ParserHistory[i].b > IterationStart(i)
                 \/ TypeAt(ParserHistory[i].b) = "EOF"
         /\ ParserHistory[i].e = "synchronize"
              => \/ ParserHistory[i].b > ParserHistory[i].a
                 \/ TypeAt(ParserHistory[i].a) = "EOF"
         /\ ParserHistory[i].e = "method" => ParserHistory[i].b > ParserHistory[i].a
         /\ ParserHistory[i].e = "declaration"
              => \A j \in 1 .. (i - 1) :
                   ParserHistory[j].e = "declaration" => ParserHistory[j].a < ParserHistory[i].a

\* The parse of  print ; var = 1; print x; x = ; var y; { 1 2; print y; ); }
\* an iteration of the block loop failed at its first token, the `)`, and
\* ended one token further; iterations of both loops pushed statements.
ParserProgressWitness ==
  /\ last.name = "parser" /\ Len(last.tokens) = 26
  /\ \E i \in DOMAIN ParserHistory :
       /\ ParserHistory[i].e = "synchronize"
       /\ DeclarationsOpen(i) = 2
       /\ ParserHistory[i].a = IterationStart(i)
       /\ TypeAt(ParserHistory[i].a) = "RIGHT_PAREN"
       /\ ParserHistory[i].b = ParserHistory[i].a + 2
  /\ \E i \in DOMAIN ParserHistory : ParserHistory[i].e = "push" /\ ParserHistory[i].x = "block"
  /\ \E i \in DOMAIN ParserHistory : ParserHistory[i].e = "push" /\ ParserHistory[i].x = "parse"
====
